---- MODULE Spec2Model ----
(***************************************************************************)
(* Verification model of kieler/vscode:                                    *)
(*   - the DepthMap / Region expand-collapse engine (src/src/depth-map.ts) *)
(*   - the layered constraint resolver                                     *)
(*     (src/keith-interactive/src/browser/layered/constraint-utils.ts)     *)
(*                                                                         *)
(* Numbers: zoom is kept in units of 1/ZoomOne and the threshold in units  *)
(* of 1/ThresholdOne, and every comparison of the source that divides by   *)
(* the zoom is cross-multiplied, so that the comparisons are exact over    *)
(* the rationals (floating point rounding is not modelled).                *)
(***************************************************************************)
EXTENDS Integers, Sequences, FiniteSets, TLC

VARIABLES
    rootElement,      \* DepthMap.instance.rootElement (0: no instance yet)
    rootRegions,      \* DepthMap.rootRegions
    regionMap,        \* DepthMap.regionMap: node id -> region
    regions,          \* the Region objects, in order of creation
    criticalRegions,  \* DepthMap.criticalRegions, a Set in insertion order
    viewport,         \* DepthMap.viewport: <<>> (undefined) or <<viewport>>
    nodeStates,       \* KNode.expansionState of every node of every model
    lastCall,         \* the call that produced the current state
    query,            \* arguments of a getExpansionState / isVisible call
    answer,           \* <<>> or its result
    dragNodes,        \* the KNodes of the hierarchy level (node.parent.children)
    dragEdges,        \* the edges between them, <<source id, target id>>
    dragTarget,       \* id of the node being dragged (0: none)
    dragLayers,       \* the Layer[] computed by getLayers (<<>>: not yet)
    dragAction        \* <<>> or the Action returned by setProperty

dmVars == <<rootElement, rootRegions, regionMap, regions, criticalRegions, viewport, nodeStates, lastCall>>
qVars == <<query, answer>>
rVars == <<dragNodes, dragEdges, dragTarget, dragLayers, dragAction>>
vars == <<rootElement, rootRegions, regionMap, regions, criticalRegions, viewport, nodeStates, lastCall, query, answer,
          dragNodes, dragEdges, dragTarget, dragLayers, dragAction>>

\* no diagram is being edited
RIdle ==
    /\ dragNodes = <<>>
    /\ dragEdges = {}
    /\ dragTarget = 0
    /\ dragLayers = <<>>
    /\ dragAction = <<>>

----------------------------------------------------------------------------
(* Bounds of the model *)

\* number of distinct scroll objects a caller can pass
MaxScroll == 3
\* getExpansionState is queried with thresholds 0 .. MaxThreshold (tenths)
MaxThreshold == 11
\* and with zoom 1/ZoomOne .. MaxQueryZoom/ZoomOne
MaxQueryZoom == 3

----------------------------------------------------------------------------
(* Constants of the source *)

EXPANDED == "true"
COLLAPSED == "false"
UNDEFINED == "undefined"

K_RECTANGLE == "KRectangleImpl"

absoluteVisibilityBuffer == 500

\* 0.2 in units of 1/ThresholdOne
defaultThreshold == 2
ThresholdOne == 10
\* zoom 1 (native resolution) in the model's zoom unit
ZoomOne == 2

----------------------------------------------------------------------------
(* Helpers: JavaScript Set semantics on sequences (insertion order kept)   *)

Range(s) == {s[i] : i \in DOMAIN s}

SetAdd(s, x) == IF x \in Range(s) THEN s ELSE Append(s, x)

SetDelete(s, x) == SelectSeq(s, LAMBDA y : y # x)

----------------------------------------------------------------------------
(* The diagram models (SModelRoot objects) the DepthMap is built from.     *)
(* children: the child list of every node; rootChildren: the children of   *)
(* the root; data: the renderings of a node (type, number of child         *)
(* renderings); bounds: the node's bounds; canvasBounds of the root.       *)

Rect(n) == <<[type |-> K_RECTANGLE, children |-> n]>>
Other == <<[type |-> "KTextImpl", children |-> 0]>>
Size(w, h) == [width |-> w, height |-> h]
\* a malformed node: its data is undefined, so that reading data.length throws
Missing == <<[type |-> "undefined", children |-> 0]>>

\* 1 -+- 2 --- 4 --- 5        1, 2, 3, 5 bound regions; 4 is a plain node
\*    +- 3
Model1 ==
    [ canvasBounds |-> Size(1000, 1000),
      rootChildren |-> <<1>>,
      children |-> <<(<<2, 3>>), (<<4>>), (<<>>), (<<5>>), (<<>>)>>,
      data |-> <<Rect(1), Rect(1), Rect(2), Other, Rect(1)>>,
      bounds |-> <<Size(800, 600), Size(300, 300), Size(300, 100), Size(150, 150), Size(100, 100)>> ]

\* 1 --- 3        two root regions; 2 has no rendering data and no children
\* 2
Model2 ==
    [ canvasBounds |-> Size(1000, 500),
      rootChildren |-> <<1, 2>>,
      children |-> <<(<<3>>), (<<>>), (<<>>)>>,
      data |-> <<Rect(1), (<<>>), Rect(1)>>,
      bounds |-> <<Size(600, 150), Size(100, 100), Size(150, 150)>> ]

\* 1              two root regions; 3 is malformed, 4 is a plain node
\* 2 -+- 3
\*    +- 4
Model3 ==
    [ canvasBounds |-> Size(1000, 500),
      rootChildren |-> <<1, 2>>,
      children |-> <<(<<>>), (<<3, 4>>), (<<>>), (<<>>)>>,
      data |-> <<Rect(1), Rect(1), Missing, Other>>,
      bounds |-> <<Size(600, 150), Size(300, 300), Size(100, 100), Size(100, 100)>> ]

Models == <<Model1, Model2, Model3>>

Roots == DOMAIN Models

NodesOf(root) == DOMAIN Models[root].children

----------------------------------------------------------------------------
(* Region and DepthMap construction                                        *)

\* new Region(boundingRectangle)
NewRegion(boundingRectangle) ==
    [ boundingRectangle |-> boundingRectangle,
      elements |-> <<>>,
      children |-> <<>>,
      parent |-> 0,
      expansionState |-> UNDEFINED,
      absoluteBounds |-> <<>> ]

\* new DepthMap(rootElement): the heap the construction works on
NewDepthMap(root) ==
    [ rootRegions |-> <<>>,
      regionMap |-> <<>>,
      regions |-> <<>>,
      criticalRegions |-> <<>>,
      \* an exception is propagating out of init
      thrown |-> FALSE ]

addRegionToMap(h, root, region) ==
    [h EXCEPT !.regionMap = (h.regions[region].boundingRectangle :> region) @@ h.regionMap]

\* the test of initHelper for "child bounds a new region"
isRegionBoundary(root, child) ==
    LET data == Models[root].data[child]
    IN Len(data) > 0 /\ data[1].type = K_RECTANGLE /\ data[1].children > 0

RECURSIVE initHelper(_, _, _, _), initHelperLoop(_, _, _, _, _)

initHelper(h, root, node, region) == initHelperLoop(h, root, node, region, 1)

\* variant: a child that bounds a region is pushed to the elements of that region
initHelperLoop_OwnRegion(h, root, node, region, i) ==
    IF h.thrown \/ i > Len(Models[root].children[node]) THEN h
    ELSE LET child == Models[root].children[node][i]
             h1 == [h EXCEPT !.regions[region].elements = Append(@, child)]
             nextRegion == Len(h.regions) + 1
             h2 == [h EXCEPT !.regions = Append(@, [NewRegion(child) EXCEPT !.parent = region,
                                                                             !.elements = <<child>>])]
             h3 == [h2 EXCEPT !.regions[region].children = SetAdd(@, nextRegion)]
             h4 == IF Models[root].data[child] = Missing
                   THEN [h1 EXCEPT !.thrown = TRUE]
                   ELSE IF isRegionBoundary(root, child)
                   THEN initHelper(addRegionToMap(h3, root, nextRegion), root, child, nextRegion)
                   ELSE initHelper(h1, root, child, region)
         IN initHelperLoop(h4, root, node, region, i + 1)

\* variant: the new region is added to the children of the current region
\* without its parent link
initHelperLoop_NoParent(h, root, node, region, i) ==
    IF h.thrown \/ i > Len(Models[root].children[node]) THEN h
    ELSE LET child == Models[root].children[node][i]
             h1 == [h EXCEPT !.regions[region].elements = Append(@, child)]
             nextRegion == Len(h1.regions) + 1
             h2 == [h1 EXCEPT !.regions = Append(@, NewRegion(child))]
             h3 == [h2 EXCEPT !.regions[region].children = SetAdd(@, nextRegion)]
             h4 == IF Models[root].data[child] = Missing
                   THEN [h1 EXCEPT !.thrown = TRUE]
                   ELSE IF isRegionBoundary(root, child)
                   THEN initHelper(addRegionToMap(h3, root, nextRegion), root, child, nextRegion)
                   ELSE initHelper(h1, root, child, region)
         IN initHelperLoop(h4, root, node, region, i + 1)

initHelperLoop(h, root, node, region, i) ==
    IF h.thrown \/ i > Len(Models[root].children[node]) THEN h
    ELSE LET child == Models[root].children[node][i]
             h1 == [h EXCEPT !.regions[region].elements = Append(@, child)]
             nextRegion == Len(h1.regions) + 1
             h2 == [h1 EXCEPT !.regions = Append(@, [NewRegion(child) EXCEPT !.parent = region])]
             h3 == [h2 EXCEPT !.regions[region].children = SetAdd(@, nextRegion)]
             h4 == IF Models[root].data[child] = Missing
                   THEN [h1 EXCEPT !.thrown = TRUE]
                   ELSE IF isRegionBoundary(root, child)
                   THEN initHelper(addRegionToMap(h3, root, nextRegion), root, child, nextRegion)
                   ELSE initHelper(h1, root, child, region)
         IN initHelperLoop(h4, root, node, region, i + 1)

RECURSIVE initLoop(_, _, _)

initLoop(h, root, i) ==
    IF h.thrown \/ i > Len(Models[root].rootChildren) THEN h
    ELSE LET node == Models[root].rootChildren[i]
             region == Len(h.regions) + 1
             h1 == [h EXCEPT !.regions = Append(@, NewRegion(node)),
                             !.rootRegions = Append(@, region)]
             h2 == addRegionToMap(h1, root, region)
         IN initLoop(initHelper(h2, root, node, region), root, i + 1)

init(h, root) == initLoop(h, root, 1)

\* node.parent (0: the parent is the SModelRoot, which has no parent)
parentOf(root, node) ==
    IF \E p \in NodesOf(root) : node \in Range(Models[root].children[p])
    THEN CHOOSE p \in NodesOf(root) : node \in Range(Models[root].children[p])
    ELSE 0

\* regionMap.get(id) (0: undefined)
getRegion(h, id) == IF id \in DOMAIN h.regionMap THEN h.regionMap[id] ELSE 0

RECURSIVE findRegionWithElement(_, _, _)

findRegionWithElement(h, root, node) ==
    IF node = 0 THEN 0
    ELSE IF getRegion(h, node) # 0 THEN getRegion(h, node)
    ELSE findRegionWithElement(h, root, parentOf(root, node))

----------------------------------------------------------------------------
(* Expansion test                                                          *)

\* the inputs of expandCollapse: viewports and the threshold option
ScrollOf(ref) == [ref |-> ref, x |-> ((ref - 1) \div 2) * 5000, y |-> 0]

\* zoom 0.5 and zoom 1
Zooms == {1, ZoomOne}

Viewports == {[scroll |-> ScrollOf(r), zoom |-> z] : r \in 1..MaxScroll, z \in Zooms}

ThresholdOptions == {<<>>, <<1>>}

\* region.absoluteBounds as the renderer may record them
AbsoluteBounds ==
    { [x |-> 100, y |-> 100, width |-> 200, height |-> 200],
      [x |-> 5100, y |-> 100, width |-> 200, height |-> 200] }

\* mutant: a box that only touches the buffered rectangle is not visible
isVisible_Strict(region, vp, root) ==
    IF region.absoluteBounds # <<>>
    THEN LET b == region.absoluteBounds[1]
             canvasBounds == root.canvasBounds
         IN /\ b.x + b.width > vp.scroll.x - absoluteVisibilityBuffer
            /\ (b.x - vp.scroll.x - absoluteVisibilityBuffer) * vp.zoom < canvasBounds.width * ZoomOne
            /\ b.y + b.height > vp.scroll.y - absoluteVisibilityBuffer
            /\ (b.y - vp.scroll.y - absoluteVisibilityBuffer) * vp.zoom < canvasBounds.height * ZoomOne
    ELSE TRUE

isVisible(region, vp, root) ==
    IF region.absoluteBounds # <<>>
    THEN LET b == region.absoluteBounds[1]
             canvasBounds == root.canvasBounds
         IN /\ b.x + b.width >= vp.scroll.x - absoluteVisibilityBuffer
            \* b.x <= scroll.x + canvasBounds.width / zoom + buffer
            /\ (b.x - vp.scroll.x - absoluteVisibilityBuffer) * vp.zoom <= canvasBounds.width * ZoomOne
            /\ b.y + b.height >= vp.scroll.y - absoluteVisibilityBuffer
            /\ (b.y - vp.scroll.y - absoluteVisibilityBuffer) * vp.zoom <= canvasBounds.height * ZoomOne
    ELSE TRUE

\* sizeInViewport as the fraction num / den
sizeInViewport(node, vp, root) ==
    LET b == root.bounds[node]
        \* horizontal = width / (canvasWidth / zoom), vertical likewise
        horizontal == [num |-> b.width * vp.zoom, den |-> root.canvasBounds.width * ZoomOne]
        vertical == [num |-> b.height * vp.zoom, den |-> root.canvasBounds.height * ZoomOne]
    IN IF horizontal.num * vertical.den > vertical.num * horizontal.den THEN horizontal ELSE vertical

\* mutant: native resolution tested with > instead of >=
getExpansionState_StrictZoom(region, vp, threshold, root) ==
    IF ~isVisible(region, vp, root) THEN COLLAPSED
    ELSE IF region.boundingRectangle = 0 THEN EXPANDED
    ELSE LET viewportSize == sizeInViewport(region.boundingRectangle, vp, root)
         IN IF viewportSize.num * ThresholdOne >= threshold * viewportSize.den \/ vp.zoom > ZoomOne
            THEN EXPANDED
            ELSE COLLAPSED

\* mutant: the missing boundingRectangle tested before the visibility
getExpansionState_RootFirst(region, vp, threshold, root) ==
    IF region.boundingRectangle = 0 THEN EXPANDED
    ELSE IF ~isVisible(region, vp, root) THEN COLLAPSED
    ELSE LET viewportSize == sizeInViewport(region.boundingRectangle, vp, root)
         IN IF viewportSize.num * ThresholdOne >= threshold * viewportSize.den \/ vp.zoom >= ZoomOne
            THEN EXPANDED
            ELSE COLLAPSED

\* mutant: a size equal to the threshold does not expand
getExpansionState_StrictSize(region, vp, threshold, root) ==
    IF ~isVisible(region, vp, root) THEN COLLAPSED
    ELSE IF region.boundingRectangle = 0 THEN EXPANDED
    ELSE LET viewportSize == sizeInViewport(region.boundingRectangle, vp, root)
         IN IF viewportSize.num * ThresholdOne > threshold * viewportSize.den \/ vp.zoom >= ZoomOne
            THEN EXPANDED
            ELSE COLLAPSED

getExpansionState(region, vp, threshold, root) ==
    IF ~isVisible(region, vp, root) THEN COLLAPSED
    ELSE IF region.boundingRectangle = 0 THEN EXPANDED
    ELSE LET viewportSize == sizeInViewport(region.boundingRectangle, vp, root)
         IN IF viewportSize.num * ThresholdOne >= threshold * viewportSize.den \/ vp.zoom >= ZoomOne
            THEN EXPANDED
            ELSE COLLAPSED

----------------------------------------------------------------------------
(* Expand / collapse propagation. h is the heap: the Region objects, the   *)
(* critical set and the expansion state of the nodes.                      *)

\* mutant: the Region is recreated with the new state instead of mutated in place
setExpansionState_Recreate(h, region, state) ==
    [h EXCEPT !.regions[region] =
        [NewRegion(h.regions[region].boundingRectangle) EXCEPT !.expansionState = state]]

\* variant: the state is assigned to the Region only, not to its elements
setExpansionState_RegionOnly(h, region, state) ==
    [h EXCEPT !.regions[region].expansionState = state]

\* Region.setExpansionState
setExpansionState(h, region, state) ==
    [h EXCEPT !.regions[region].expansionState = state,
              !.nodes = [n \in DOMAIN h.nodes |->
                            IF n \in Range(h.regions[region].elements) THEN state ELSE h.nodes[n]]]

\* bookkeeping of the model: one more call of searchUntilCollapse or
\* recursiveCollapseRegion with this region
visit(h, region) == [h EXCEPT !.visits[region] = @ + 1]

RECURSIVE recursiveCollapseRegion(_, _), recursiveCollapseLoop(_, _, _)

recursiveCollapseRegion(h, region) ==
    LET h1 == setExpansionState(visit(h, region), region, COLLAPSED)
        h2 == [h1 EXCEPT !.criticalRegions = SetDelete(@, region)]
    IN recursiveCollapseLoop(h2, region, 1)

recursiveCollapseLoop(h, region, i) ==
    IF i > Len(h.regions[region].children) THEN h
    ELSE LET childRegion == h.regions[region].children[i]
             h1 == IF h.regions[childRegion].expansionState = EXPANDED
                   THEN recursiveCollapseRegion(h, childRegion)
                   ELSE h
         IN recursiveCollapseLoop(h1, region, i + 1)

RECURSIVE searchUntilCollapse(_, _, _, _, _), searchUntilCollapseLoop(_, _, _, _, _, _)

searchUntilCollapse(h, region, vp, threshold, root) ==
    searchUntilCollapseLoop(setExpansionState(visit(h, region), region, EXPANDED),
                            region, vp, threshold, root, 1)

\* mutant: the region is not recorded as critical when a child collapses
searchUntilCollapseLoop_NoCritical(h, region, vp, threshold, root, i) ==
    IF i > Len(h.regions[region].children) THEN h
    ELSE LET childRegion == h.regions[region].children[i]
             h1 == IF h.regions[childRegion].boundingRectangle # 0
                   THEN IF getExpansionState(h.regions[childRegion], vp, threshold, root) = COLLAPSED
                        THEN recursiveCollapseRegion(h, childRegion)
                        ELSE searchUntilCollapse(h, childRegion, vp, threshold, root)
                   ELSE h
         IN searchUntilCollapseLoop(h1, region, vp, threshold, root, i + 1)

searchUntilCollapseLoop(h, region, vp, threshold, root, i) ==
    IF i > Len(h.regions[region].children) THEN h
    ELSE LET childRegion == h.regions[region].children[i]
             h1 == IF h.regions[childRegion].boundingRectangle # 0
                   THEN IF getExpansionState(h.regions[childRegion], vp, threshold, root) = COLLAPSED
                        THEN recursiveCollapseRegion(
                                 [h EXCEPT !.criticalRegions = SetAdd(@, region)], childRegion)
                        ELSE searchUntilCollapse(h, childRegion, vp, threshold, root)
                   ELSE h
         IN searchUntilCollapseLoop(h1, region, vp, threshold, root, i + 1)

\* region.children.forEach(childRegion => this.recursiveCollapseRegion(childRegion))
RECURSIVE collapseAllChildren(_, _, _)

collapseAllChildren(h, region, i) ==
    IF i > Len(h.regions[region].children) THEN h
    ELSE collapseAllChildren(recursiveCollapseRegion(h, h.regions[region].children[i]), region, i + 1)

\* region.children.forEach(childRegion => childSet.add(childRegion))
RECURSIVE addAll(_, _, _)

addAll(set, seq, i) == IF i > Len(seq) THEN set ELSE addAll(SetAdd(set, seq[i]), seq, i + 1)

\* One pass of toBeProcessed.forEach in checkCriticalRegions.
\* c = [h, nextToBeProcessed, childSet, frontiers]; frontiers is bookkeeping of
\* the model: the values toBeProcessed has had in the rounds of the while loop
RECURSIVE processLoop(_, _, _, _, _, _)

processLoop_QueuesChildren(c, toBeProcessed, vp, threshold, root, i) ==
    IF i > Len(toBeProcessed) THEN c
    ELSE LET region == toBeProcessed[i]
             h == c.h
             parent == h.regions[region].parent
             collapse == \/ (parent # 0 /\ h.regions[parent].expansionState = COLLAPSED)
                         \/ getExpansionState(h.regions[region], vp, threshold, root) # EXPANDED
             h1 == setExpansionState(h, region, COLLAPSED)
             h2 == [h1 EXCEPT !.criticalRegions = SetDelete(@, region)]
             h3 == IF parent # 0
                   THEN [h2 EXCEPT !.criticalRegions = SetAdd(@, parent)]
                   ELSE h2
             c1 == IF collapse
                   THEN [ h |-> collapseAllChildren(h3, region, 1),
                          nextToBeProcessed |->
                              addAll(c.nextToBeProcessed, h.regions[region].children, 1),
                          childSet |-> c.childSet,
                          frontiers |-> c.frontiers ]
                   ELSE [ h |-> h,
                          nextToBeProcessed |-> c.nextToBeProcessed,
                          childSet |-> addAll(c.childSet, h.regions[region].children, 1),
                          frontiers |-> c.frontiers ]
         IN processLoop(c1, toBeProcessed, vp, threshold, root, i + 1)

processLoop(c, toBeProcessed, vp, threshold, root, i) ==
    IF i > Len(toBeProcessed) THEN c
    ELSE LET region == toBeProcessed[i]
             h == c.h
             parent == h.regions[region].parent
             collapse == \/ (parent # 0 /\ h.regions[parent].expansionState = COLLAPSED)
                         \/ getExpansionState(h.regions[region], vp, threshold, root) # EXPANDED
             h1 == setExpansionState(h, region, COLLAPSED)
             h2 == [h1 EXCEPT !.criticalRegions = SetDelete(@, region)]
             h3 == IF parent # 0
                   THEN [h2 EXCEPT !.criticalRegions = SetAdd(@, parent)]
                   ELSE h2
             c1 == IF collapse
                   THEN [ h |-> collapseAllChildren(h3, region, 1),
                          nextToBeProcessed |->
                              IF parent # 0 THEN SetAdd(c.nextToBeProcessed, parent)
                              ELSE c.nextToBeProcessed,
                          childSet |-> c.childSet,
                          frontiers |-> c.frontiers ]
                   ELSE [ h |-> h,
                          nextToBeProcessed |-> c.nextToBeProcessed,
                          childSet |-> addAll(c.childSet, h.regions[region].children, 1),
                          frontiers |-> c.frontiers ]
         IN processLoop(c1, toBeProcessed, vp, threshold, root, i + 1)

\* while (toBeProcessed.size !== 0) { ... }
RECURSIVE whileLoop(_, _, _, _, _)

whileLoop(c, toBeProcessed, vp, threshold, root) ==
    IF Len(toBeProcessed) = 0 THEN c
    ELSE LET c1 == processLoop([c EXCEPT !.nextToBeProcessed = <<>>,
                                         !.frontiers = Append(@, toBeProcessed)],
                               toBeProcessed, vp, threshold, root, 1)
         IN whileLoop(c1, c1.nextToBeProcessed, vp, threshold, root)

\* childSet.forEach(...) at the end of checkCriticalRegions
RECURSIVE childSetLoop(_, _, _, _, _, _)

childSetLoop(h, childSet, vp, threshold, root, i) ==
    IF i > Len(childSet) THEN h
    ELSE LET childRegion == childSet[i]
             parent == h.regions[childRegion].parent
             h1 == IF getExpansionState(h.regions[childRegion], vp, threshold, root) = EXPANDED
                   THEN searchUntilCollapse(h, childRegion, vp, threshold, root)
                   ELSE recursiveCollapseRegion(
                            IF parent # 0
                            THEN [h EXCEPT !.criticalRegions = SetAdd(@, parent)]
                            ELSE h,
                            childRegion)
         IN childSetLoop(h1, childSet, vp, threshold, root, i + 1)

\* the while loop of checkCriticalRegions, started on the critical regions
criticalRegionsLoop(h, vp, threshold, root) ==
    whileLoop([h |-> h, nextToBeProcessed |-> <<>>, childSet |-> <<>>, frontiers |-> <<>>],
              h.criticalRegions, vp, threshold, root)

checkCriticalRegions(h, vp, threshold, root) ==
    LET c == criticalRegionsLoop(h, vp, threshold, root)
    IN childSetLoop(c.h, c.childSet, vp, threshold, root, 1)

\* the cold start loop of expandCollapse over rootRegions
RECURSIVE coldStartLoop(_, _, _, _, _)

coldStartLoop(h, vp, threshold, root, i) ==
    IF i > Len(h.rootRegions) THEN h
    ELSE LET region == h.rootRegions[i]
             h1 == IF getExpansionState(h.regions[region], vp, threshold, root) = EXPANDED
                   THEN searchUntilCollapse(h, region, vp, threshold, root)
                   ELSE h
         IN coldStartLoop(h1, vp, threshold, root, i + 1)

\* mutant: the recorded viewport object compared with the argument by reference;
\* the recorded object is a copy, so the comparison never succeeds
viewportUnchanged_ByObject(old, vp) == FALSE

\* the skip rule: scroll is compared by reference (===), zoom by value
viewportUnchanged(old, vp) ==
    old # <<>> /\ old[1].scroll = vp.scroll /\ old[1].zoom = vp.zoom

\* the threshold expandCollapse works with
expandCollapseThreshold(thresholdOption) ==
    IF thresholdOption # <<>> THEN thresholdOption[1] ELSE defaultThreshold

\* the body of expandCollapse after the skip rule
expandCollapseBody(h, vp, thresholdOption, root) ==
    IF Len(h.criticalRegions) = 0
    THEN coldStartLoop(h, vp, expandCollapseThreshold(thresholdOption), root, 1)
    ELSE checkCriticalRegions(h, vp, expandCollapseThreshold(thresholdOption), root)

----------------------------------------------------------------------------
(* The DepthMap state machine                                              *)

\* nodes: the expansionState of the KNodes of the model the DepthMap was built for;
\* visits: bookkeeping of the model, see visit
Heap ==
    [ rootRegions |-> rootRegions, regionMap |-> regionMap, regions |-> regions,
      criticalRegions |-> criticalRegions, nodes |-> nodeStates[rootElement],
      visits |-> [r \in DOMAIN regions |-> 0] ]

\* root: the argument of a getInstance call (0 for the other calls);
\* threshold: the threshold an expandCollapse pass ran with (0 for the other calls)
Call(op, vp) == [op |-> op, viewport |-> vp, root |-> 0, threshold |-> 0]

DmInit ==
    /\ rootElement = 0
    /\ rootRegions = <<>>
    /\ regionMap = <<>>
    /\ regions = <<>>
    /\ criticalRegions = <<>>
    /\ viewport = <<>>
    /\ nodeStates = [root \in Roots |-> [n \in NodesOf(root) |-> UNDEFINED]]
    /\ lastCall = Call("none", <<>>)

\* variant: the instance is rebuilt on every call
GetInstance_Rebuild(root) ==
    /\ IF TRUE
       THEN \E h \in {init(NewDepthMap(root), root)} :
               /\ rootElement' = root
               /\ rootRegions' = h.rootRegions
               /\ regionMap' = h.regionMap
               /\ regions' = h.regions
               /\ criticalRegions' = h.criticalRegions
               /\ viewport' = <<>>
       ELSE UNCHANGED <<rootElement, rootRegions, regionMap, regions, criticalRegions, viewport>>
    /\ UNCHANGED nodeStates
    /\ lastCall' = [Call("getInstance", <<>>) EXCEPT !.root = root]
    /\ UNCHANGED qVars
    /\ UNCHANGED rVars

\* DepthMap.getInstance(rootElement)
GetInstance(root) ==
    /\ IF rootElement = 0 \/ rootElement # root
       THEN \E h \in {init(NewDepthMap(root), root)} :
               /\ rootElement' = root
               /\ rootRegions' = h.rootRegions
               /\ regionMap' = h.regionMap
               /\ regions' = h.regions
               /\ criticalRegions' = h.criticalRegions
               /\ viewport' = <<>>
       ELSE UNCHANGED <<rootElement, rootRegions, regionMap, regions, criticalRegions, viewport>>
    /\ UNCHANGED nodeStates
    /\ lastCall' = [Call("getInstance", <<>>) EXCEPT !.root = root]
    /\ UNCHANGED qVars
    /\ UNCHANGED rVars

\* DepthMap.getInstance(rootElement).expandCollapse(viewport, renderingOptions)
ExpandCollapse(vp, thresholdOption) ==
    /\ rootElement # 0
    /\ IF viewportUnchanged(viewport, vp)
       THEN /\ lastCall' = Call("skip", <<vp>>)
            /\ UNCHANGED <<rootRegions, regionMap, regions, criticalRegions, nodeStates, viewport>>
       ELSE \E h \in {expandCollapseBody(Heap, vp, thresholdOption, Models[rootElement])} :
               /\ viewport' = <<[zoom |-> vp.zoom, scroll |-> vp.scroll]>>
               /\ rootRegions' = h.rootRegions
               /\ regionMap' = h.regionMap
               /\ regions' = h.regions
               /\ criticalRegions' = h.criticalRegions
               /\ nodeStates' = [nodeStates EXCEPT ![rootElement] = h.nodes]
               /\ lastCall' = [Call(IF Len(criticalRegions) = 0 THEN "coldStart" ELSE "incremental", <<vp>>)
                                  EXCEPT !.threshold = expandCollapseThreshold(thresholdOption)]
    /\ UNCHANGED <<rootElement>>
    /\ UNCHANGED qVars
    /\ UNCHANGED rVars

\* the renderer records the absolute bounds of a region, once they are known
SetAbsoluteBounds(region, b) ==
    /\ region \in DOMAIN regions
    /\ regions[region].absoluteBounds = <<>>
    /\ regions' = [regions EXCEPT ![region].absoluteBounds = <<b>>]
    /\ lastCall' = Call("absoluteBounds", <<>>)
    /\ UNCHANGED <<rootElement, rootRegions, regionMap, criticalRegions, viewport, nodeStates>>
    /\ UNCHANGED qVars
    /\ UNCHANGED rVars

DmNext ==
    \/ \E root \in Roots : GetInstance(root)
    \/ \E vp \in Viewports, t \in ThresholdOptions : ExpandCollapse(vp, t)
    \/ \E region \in DOMAIN regions, b \in AbsoluteBounds : SetAbsoluteBounds(region, b)

Init == DmInit /\ query = <<>> /\ answer = <<>> /\ RIdle

Next == DmNext

Spec == Init /\ [][Next]_vars

----------------------------------------------------------------------------
(* getExpansionState and isVisible as functions of their arguments         *)

\* a root with one node of the given bounds
QueryRoot(canvas, b) == [canvasBounds |-> canvas, bounds |-> <<b>>]

\* absolute bounds of the queried region: those of the renderer, boxes whose
\* edge lies on an edge of the buffered rectangle of the viewport with scroll
\* (0, 0) and zoom 1 on the 1000 x 500 canvas, and boxes one unit further out
QueryAbsoluteBounds ==
    AbsoluteBounds \cup
    { [x |-> -700, y |-> 100, width |-> 200, height |-> 200],
      [x |-> 1500, y |-> 100, width |-> 200, height |-> 200],
      [x |-> 100, y |-> -700, width |-> 200, height |-> 200],
      [x |-> 100, y |-> 1000, width |-> 200, height |-> 200],
      [x |-> -701, y |-> 100, width |-> 200, height |-> 200],
      [x |-> 100, y |-> 1001, width |-> 200, height |-> 200] }

Queries ==
    { [ region |-> [absoluteBounds |-> ab, boundingRectangle |-> br],
        viewport |-> [scroll |-> ScrollOf(r), zoom |-> z],
        threshold |-> t,
        root |-> QueryRoot(Size(1000, 500), b) ] :
      ab \in {<<>>} \cup {<<a>> : a \in QueryAbsoluteBounds},
      br \in {0, 1},
      r \in 1..MaxScroll,
      z \in 1..MaxQueryZoom,
      t \in 0..MaxThreshold,
      b \in {Size(100, 40), Size(400, 300), Size(1200, 100)} }

QInit == DmInit /\ query \in Queries /\ answer = <<>> /\ RIdle

\* this.getExpansionState(region, viewport, threshold), with the visibility it rests on
GetExpansionStateCall ==
    /\ answer = <<>>
    /\ answer' = <<[ isVisible |-> isVisible(query.region, query.viewport, query.root),
                     getExpansionState |->
                         getExpansionState(query.region, query.viewport, query.threshold, query.root) ]>>
    /\ UNCHANGED <<query>>
    /\ UNCHANGED dmVars
    /\ UNCHANGED rVars

QNext == GetExpansionStateCall

QSpec == QInit /\ [][QNext]_vars

----------------------------------------------------------------------------
(* The layered constraint resolver (constraint-utils.ts).                  *)
(* A KNode is a record [id, position, size, shadow, shadowX, shadowY,      *)
(* selected, direction, properties, relGroup]; the nodes array is a        *)
(* sequence of KNodes. Coordinates of the inputs are multiples of 4, which *)
(* makes every halving of the source exact in the integers.                *)

PLACEMENT_TOP_BOTTOM_OFFSET == 20
ONE_LAYER_PADDING == 10

\* Number.MAX_VALUE: larger than every coordinate of the model
MAX_VALUE == 1000000000
\* Number.MIN_VALUE is the smallest positive double (5e-324), not the most
\* negative one: it is absorbed by every addition and acts as 0
MIN_VALUE == 0

Direction_UNDEFINED == "UNDEFINED"
Direction_RIGHT == "RIGHT"
Direction_LEFT == "LEFT"
Direction_DOWN == "DOWN"
Direction_UP == "UP"

Directions == {Direction_UNDEFINED, Direction_RIGHT, Direction_LEFT, Direction_DOWN, Direction_UP}

\* direction === UNDEFINED || direction === RIGHT || direction === LEFT
alongX(direction) == direction \in {Direction_UNDEFINED, Direction_RIGHT, Direction_LEFT}

\* direction === UNDEFINED || direction === RIGHT || direction === DOWN
ascending(direction) == direction \in {Direction_UNDEFINED, Direction_RIGHT, Direction_DOWN}

Half(x) == x \div 2

Min(a, b) == IF a < b THEN a ELSE b
Max(a, b) == IF a > b THEN a ELSE b

\* Array.prototype.sort with the comparator (a, b) => key(a) - key(b), which
\* is stable; keys[i] is the key of s[i]
sortBy(s, keys) ==
    LET rank(i) == Cardinality({j \in DOMAIN s :
                        keys[j] < keys[i] \/ (keys[j] = keys[i] /\ j < i)}) + 1
    IN [p \in DOMAIN s |-> s[CHOOSE i \in DOMAIN s : rank(i) = p]]

\* Array.prototype.indexOf(target), 0-based, -1 when absent (nodes are compared by identity)
indexOf(s, target) ==
    IF \E i \in DOMAIN s : s[i].id = target.id
    THEN (CHOOSE i \in DOMAIN s : s[i].id = target.id /\ \A j \in 1..(i - 1) : s[j].id # target.id) - 1
    ELSE -1

\* new Layer(id, begin, end, mid, direction)
NewLayer(id, begin, end, mid, direction) ==
    [ id |-> id, begin |-> begin, end |-> end, mid |-> mid, direction |-> direction,
      topBorder |-> 0, bottomBorder |-> 0 ]

getNodesOfLayer(layer, nodes) == SelectSeq(nodes, LAMBDA node : node.properties.layerId = layer)

\* variant: the end of a layer belongs to the layer
getLayerOfNode_ClosedEnd(node, nodes, layers, direction) ==
    LET \* twice the coordinate, to keep the half of an odd size exact
        coordinate2 == IF alongX(direction)
                       THEN 2 * node.position.x + node.size.width
                       ELSE 2 * node.position.y + node.size.height
        inLayer(layer) ==
            \/ (coordinate2 <= 2 * layer.end /\ ascending(direction))
            \/ (coordinate2 >= 2 * layer.end /\ direction \in {Direction_LEFT, Direction_UP})
        lastLNodes == getNodesOfLayer(layers[Len(layers)].id, nodes)
    IN IF \E i \in DOMAIN layers : inLayer(layers[i])
       THEN layers[CHOOSE i \in DOMAIN layers : inLayer(layers[i]) /\ \A j \in 1..(i - 1) : ~inLayer(layers[j])].id
       ELSE IF Len(lastLNodes) = 1 /\ lastLNodes[1].selected
            THEN layers[Len(layers)].id
            ELSE layers[Len(layers)].id + 1

\* variant: a node that matches no layer always opens a new last layer
getLayerOfNode_AlwaysNew(node, nodes, layers, direction) ==
    LET coordinate2 == IF alongX(direction)
                       THEN 2 * node.position.x + node.size.width
                       ELSE 2 * node.position.y + node.size.height
        inLayer(layer) ==
            \/ (coordinate2 < 2 * layer.end /\ ascending(direction))
            \/ (coordinate2 > 2 * layer.end /\ direction \in {Direction_LEFT, Direction_UP})
    IN IF \E i \in DOMAIN layers : inLayer(layers[i])
       THEN layers[CHOOSE i \in DOMAIN layers : inLayer(layers[i]) /\ \A j \in 1..(i - 1) : ~inLayer(layers[j])].id
       ELSE layers[Len(layers)].id + 1

\* variant: the layer of a dragged node is taken from its shadow coordinates
getLayerOfNode_Shadow(node, nodes, layers, direction) ==
    LET x == IF node.shadow THEN node.shadowX ELSE node.position.x
        y == IF node.shadow THEN node.shadowY ELSE node.position.y
        coordinate2 == IF alongX(direction)
                       THEN 2 * x + node.size.width
                       ELSE 2 * y + node.size.height
        inLayer(layer) ==
            \/ (coordinate2 < 2 * layer.end /\ ascending(direction))
            \/ (coordinate2 > 2 * layer.end /\ direction \in {Direction_LEFT, Direction_UP})
        lastLNodes == getNodesOfLayer(layers[Len(layers)].id, nodes)
    IN IF \E i \in DOMAIN layers : inLayer(layers[i])
       THEN layers[CHOOSE i \in DOMAIN layers : inLayer(layers[i]) /\ \A j \in 1..(i - 1) : ~inLayer(layers[j])].id
       ELSE IF Len(lastLNodes) = 1 /\ lastLNodes[1].selected
            THEN layers[Len(layers)].id
            ELSE layers[Len(layers)].id + 1

getLayerOfNode(node, nodes, layers, direction) ==
    LET \* twice the coordinate, to keep the half of an odd size exact
        coordinate2 == IF alongX(direction)
                       THEN 2 * node.position.x + node.size.width
                       ELSE 2 * node.position.y + node.size.height
        inLayer(layer) ==
            \/ (coordinate2 < 2 * layer.end /\ ascending(direction))
            \/ (coordinate2 > 2 * layer.end /\ direction \in {Direction_LEFT, Direction_UP})
        lastLNodes == getNodesOfLayer(layers[Len(layers)].id, nodes)
    IN IF \E i \in DOMAIN layers : inLayer(layers[i])
       THEN layers[CHOOSE i \in DOMAIN layers : inLayer(layers[i]) /\ \A j \in 1..(i - 1) : ~inLayer(layers[j])].id
       ELSE IF Len(lastLNodes) = 1 /\ lastLNodes[1].selected
            THEN layers[Len(layers)].id
            ELSE layers[Len(layers)].id + 1

\* variant: the highest layer constraint itself, without the distance to the candidate
getActualLayer_NoOffset(node, nodes, layerCandidate) ==
    LET layerConstraintLeftOfCandidate ==
            SelectSeq(nodes, LAMBDA n : n.properties.layerId <= layerCandidate
                                        /\ n.properties.layerConstraint > n.properties.layerId)
        cons(i) == layerConstraintLeftOfCandidate[i].properties.layerConstraint
        \* the first node with the highest layer constraint
        best == CHOOSE i \in DOMAIN layerConstraintLeftOfCandidate :
                    /\ \A j \in DOMAIN layerConstraintLeftOfCandidate : cons(j) <= cons(i)
                    /\ \A j \in 1..(i - 1) : cons(j) < cons(i)
    IN IF Len(layerConstraintLeftOfCandidate) = 0 THEN layerCandidate
       ELSE cons(best)

getActualLayer(node, nodes, layerCandidate) ==
    LET layerConstraintLeftOfCandidate ==
            SelectSeq(nodes, LAMBDA n : n.properties.layerId <= layerCandidate
                                        /\ n.properties.layerConstraint > n.properties.layerId)
        cons(i) == layerConstraintLeftOfCandidate[i].properties.layerConstraint
        \* the first node with the highest layer constraint
        best == CHOOSE i \in DOMAIN layerConstraintLeftOfCandidate :
                    /\ \A j \in DOMAIN layerConstraintLeftOfCandidate : cons(j) <= cons(i)
                    /\ \A j \in 1..(i - 1) : cons(j) < cons(i)
    IN IF Len(layerConstraintLeftOfCandidate) = 0 THEN layerCandidate
       ELSE cons(best) + (layerCandidate - layerConstraintLeftOfCandidate[best].properties.layerId)

\* variant: the index is always bumped past the constraint of the upper neighbour
getActualTargetIndex_AlwaysPast(targetIndex, alreadyInLayer, layerNodes) ==
    IF targetIndex > 0
    THEN LET upperIndex == targetIndex - 1
             upperNeighbor == layerNodes[upperIndex + 1]
             posConsOfUpper == upperNeighbor.properties.positionConstraint
         IN IF posConsOfUpper > upperIndex
            THEN posConsOfUpper + 1
            ELSE targetIndex
    ELSE targetIndex

getActualTargetIndex(targetIndex, alreadyInLayer, layerNodes) ==
    IF targetIndex > 0
    THEN LET upperIndex == targetIndex - 1
             upperNeighbor == layerNodes[upperIndex + 1]
             posConsOfUpper == upperNeighbor.properties.positionConstraint
         IN IF posConsOfUpper > upperIndex
            THEN IF alreadyInLayer /\ upperNeighbor.properties.positionId = targetIndex
                 THEN posConsOfUpper
                 ELSE posConsOfUpper + 1
            ELSE targetIndex
    ELSE targetIndex

\* the for loop of getLayers over the sorted nodes.
\* a = [layers, layer, beginCoordinate, endCoordinate, topBorder, bottomBorder]
RECURSIVE getLayersLoop(_, _, _, _)

getLayersLoop(a, nodes, direction, i) ==
    IF i > Len(nodes) THEN a
    ELSE LET node == nodes[i]
             next == node.properties.layerId # a.layer
             a1 == IF next
                   THEN [a EXCEPT
                           !.layers = Append(@, NewLayer(a.layer, a.beginCoordinate, a.endCoordinate,
                                          a.beginCoordinate + Half(a.endCoordinate - a.beginCoordinate),
                                          direction)),
                           !.beginCoordinate = IF ascending(direction) THEN MAX_VALUE ELSE MIN_VALUE,
                           !.endCoordinate = IF ascending(direction) THEN MIN_VALUE ELSE MAX_VALUE,
                           !.layer = node.properties.layerId]
                   ELSE a
             x == IF node.shadow THEN node.shadowX ELSE node.position.x
             y == IF node.shadow THEN node.shadowY ELSE node.position.y
             currentBegin == CASE direction \in {Direction_UNDEFINED, Direction_RIGHT} -> x
                               [] direction = Direction_LEFT -> x + node.size.width
                               [] direction = Direction_DOWN -> y
                               [] direction = Direction_UP -> y + node.size.height
             currentEnd == CASE direction \in {Direction_UNDEFINED, Direction_RIGHT} -> x + node.size.width
                             [] direction = Direction_LEFT -> x
                             [] direction = Direction_DOWN -> y + node.size.height
                             [] direction = Direction_UP -> y
             currentTopBorder == IF alongX(direction) THEN y ELSE x
             currentBottomBorder == IF alongX(direction) THEN y + node.size.height ELSE x + node.size.width
             a2 == [a1 EXCEPT
                      !.beginCoordinate = IF ascending(direction) THEN Min(currentBegin, @) ELSE Max(currentBegin, @),
                      !.endCoordinate = IF ascending(direction) THEN Max(currentEnd, @) ELSE Min(currentEnd, @),
                      !.topBorder = Min(currentTopBorder, @),
                      !.bottomBorder = Max(currentBottomBorder, @)]
         IN getLayersLoop(a2, nodes, direction, i + 1)

\* the loop of getLayers that joins neighbouring layers at the mid of their gap
RECURSIVE joinLayersLoop(_, _, _, _)

joinLayersLoop(layers, topBorder, bottomBorder, i) ==
    IF i > Len(layers) - 1 THEN layers
    ELSE LET currentLayer == layers[i]
             precedingLayer == layers[i + 1]
             mid == currentLayer.end + Half(precedingLayer.begin - currentLayer.end)
         IN joinLayersLoop([layers EXCEPT ![i].end = mid,
                                          ![i].topBorder = topBorder,
                                          ![i].bottomBorder = bottomBorder,
                                          ![i + 1].begin = mid],
                           topBorder, bottomBorder, i + 1)

\* nodes.sort((a, b) => a.properties.layerId - b.properties.layerId), in place
sortByLayerId(nodes) == sortBy(nodes, [i \in DOMAIN nodes |-> nodes[i].properties.layerId])

getLayers(nodes, direction) ==
    LET sorted == sortByLayerId(nodes)
        a0 == [ layers |-> <<>>, layer |-> 0,
                beginCoordinate |-> IF ascending(direction) THEN MAX_VALUE ELSE MIN_VALUE,
                endCoordinate |-> IF ascending(direction) THEN MIN_VALUE ELSE MAX_VALUE,
                topBorder |-> MAX_VALUE, bottomBorder |-> MIN_VALUE ]
        a == getLayersLoop(a0, sorted, direction, 1)
        all == Append(a.layers, NewLayer(a.layer, a.beginCoordinate, a.endCoordinate,
                          a.beginCoordinate + Half(a.endCoordinate - a.beginCoordinate), direction))
        topBorder == a.topBorder - PLACEMENT_TOP_BOTTOM_OFFSET
        bottomBorder == a.bottomBorder + PLACEMENT_TOP_BOTTOM_OFFSET
        joined == joinLayersLoop(all, topBorder, bottomBorder, 1)
        n == Len(joined)
    IN IF n = 1
       THEN [joined EXCEPT
               ![1].begin = IF direction \in {Direction_LEFT, Direction_UP}
                            THEN @ + ONE_LAYER_PADDING ELSE @ - ONE_LAYER_PADDING,
               ![1].end = IF direction \in {Direction_LEFT, Direction_UP}
                          THEN @ - ONE_LAYER_PADDING ELSE @ + ONE_LAYER_PADDING,
               ![1].topBorder = topBorder,
               ![1].bottomBorder = bottomBorder]
       ELSE LET firstBegin == joined[1].mid - (joined[1].end - joined[1].mid)
                lastBegin == joined[n - 1].end
                distance == joined[n].mid - lastBegin
            IN [joined EXCEPT
                  ![1].begin = firstBegin,
                  ![n].begin = lastBegin,
                  ![n].end = joined[n].mid + distance,
                  ![n].topBorder = topBorder,
                  ![n].bottomBorder = bottomBorder]

\* the nodes array as getPositionInLayer leaves it (sorted in place)
sortByPosition(nodes, direction) ==
    IF alongX(direction)
    THEN sortBy(nodes, [i \in DOMAIN nodes |-> nodes[i].position.y])
    ELSE sortBy(nodes, [i \in DOMAIN nodes |-> nodes[i].position.x])

getPositionInLayer(nodes, target, direction) ==
    LET sorted == sortByPosition(nodes, direction)
        cross(n) == IF alongX(direction) THEN n.position.y ELSE n.position.x
        below(i) == cross(target) < cross(sorted[i])
    IN IF indexOf(sorted, target) # -1 THEN indexOf(sorted, target)
       ELSE IF \E i \in DOMAIN sorted : below(i)
            THEN (CHOOSE i \in DOMAIN sorted : below(i) /\ \A j \in 1..(i - 1) : ~below(j)) - 1
            ELSE Len(sorted)

\* filterKNodes(node.parent.children): the KNodes among the siblings
filterKNodes(children) == children

\* getChain(node, layerNodes): the node and the nodes of its layer glued to it
\* by relative constraints
getChain(node, layerNodes) ==
    SelectSeq(layerNodes, LAMBDA n : n.id = node.id \/ (node.relGroup # 0 /\ n.relGroup = node.relGroup))

\* siblings: node.parent.children; edges: pairs <<source id, target id>>
isLayerForbidden(node, layer, siblings, edges) ==
    LET layerNodes == getNodesOfLayer(node.properties.layerId, filterKNodes(siblings))
        chainNodes == getChain(node, layerNodes)
        chainIds == {chainNodes[i].id : i \in DOMAIN chainNodes}
        connectedIds == {e[2] : e \in {f \in edges : f[1] \in chainIds}}
                            \cup {e[1] : e \in {f \in edges : f[2] \in chainIds}}
    IN \E i \in DOMAIN siblings :
           /\ siblings[i].id \in connectedIds
           /\ siblings[i].properties.layerId = layer
           /\ siblings[i].properties.layerConstraint # -1

shouldOnlyLCBeSet(node, layers, direction) ==
    LET coordinateToCheck == IF alongX(direction) THEN node.position.y ELSE node.position.x
    IN IF Len(layers) # 0
       THEN coordinateToCheck < layers[1].topBorder \/ coordinateToCheck > layers[1].bottomBorder
       ELSE FALSE

RefreshDiagramAction == [kind |-> "RefreshDiagramAction"]

SetLayerConstraintAction(id, layer, layerCons) ==
    [kind |-> "SetLayerConstraintAction", id |-> id, layer |-> layer, layerCons |-> layerCons]

SetStaticConstraintAction(id, layer, layerCons, position, posCons) ==
    [kind |-> "SetStaticConstraintAction", id |-> id, layer |-> layer, layerCons |-> layerCons,
     position |-> position, posCons |-> posCons]

SetPositionConstraintAction(id, position, posCons) ==
    [kind |-> "SetPositionConstraintAction", id |-> id, position |-> position, posCons |-> posCons]

\* variant: the position constraint, not the position, is compared with positionId
setProperty_ComparePosCons(nodes, layers, target, edges) ==
    LET direction == target.direction
        layerOfTarget == getLayerOfNode(target, nodes, layers, direction)
        nodesOfLayer == getNodesOfLayer(layerOfTarget, nodes)
        positionOfTarget == getPositionInLayer(nodesOfLayer, target, direction)
        \* getPositionInLayer has sorted nodesOfLayer in place
        sortedNodesOfLayer == sortByPosition(nodesOfLayer, direction)
        newPositionCons == getActualTargetIndex(positionOfTarget,
                               indexOf(sortedNodesOfLayer, target) # -1, sortedNodesOfLayer)
        newLayerCons == getActualLayer(target, nodes, layerOfTarget)
        forbidden == isLayerForbidden(target, newLayerCons, nodes, edges)
    IN IF forbidden THEN RefreshDiagramAction
       ELSE IF target.properties.layerId # layerOfTarget
            THEN IF shouldOnlyLCBeSet(target, layers, direction)
                 THEN SetLayerConstraintAction(target.id, layerOfTarget, newLayerCons)
                 ELSE SetStaticConstraintAction(target.id, layerOfTarget, newLayerCons,
                                                positionOfTarget, newPositionCons)
            ELSE IF target.properties.positionId # newPositionCons
                 THEN SetPositionConstraintAction(target.id, positionOfTarget, newPositionCons)
                 ELSE RefreshDiagramAction

\* variant: a drop outside the span of the layers is not tested for a forbidden layer
setProperty_LayerBeforeForbidden(nodes, layers, target, edges) ==
    LET direction == target.direction
        layerOfTarget == getLayerOfNode(target, nodes, layers, direction)
        nodesOfLayer == getNodesOfLayer(layerOfTarget, nodes)
        positionOfTarget == getPositionInLayer(nodesOfLayer, target, direction)
        \* getPositionInLayer has sorted nodesOfLayer in place
        sortedNodesOfLayer == sortByPosition(nodesOfLayer, direction)
        newPositionCons == getActualTargetIndex(positionOfTarget,
                               indexOf(sortedNodesOfLayer, target) # -1, sortedNodesOfLayer)
        newLayerCons == getActualLayer(target, nodes, layerOfTarget)
        forbidden == isLayerForbidden(target, newLayerCons, nodes, edges)
    IN IF target.properties.layerId # layerOfTarget
       THEN IF shouldOnlyLCBeSet(target, layers, direction)
            THEN SetLayerConstraintAction(target.id, layerOfTarget, newLayerCons)
            ELSE IF forbidden THEN RefreshDiagramAction
                 ELSE SetStaticConstraintAction(target.id, layerOfTarget, newLayerCons,
                                                positionOfTarget, newPositionCons)
       ELSE IF forbidden THEN RefreshDiagramAction
            ELSE IF target.properties.positionId # positionOfTarget
                 THEN SetPositionConstraintAction(target.id, positionOfTarget, newPositionCons)
                 ELSE RefreshDiagramAction

setProperty(nodes, layers, target, edges) ==
    LET direction == target.direction
        layerOfTarget == getLayerOfNode(target, nodes, layers, direction)
        nodesOfLayer == getNodesOfLayer(layerOfTarget, nodes)
        positionOfTarget == getPositionInLayer(nodesOfLayer, target, direction)
        \* getPositionInLayer has sorted nodesOfLayer in place
        sortedNodesOfLayer == sortByPosition(nodesOfLayer, direction)
        newPositionCons == getActualTargetIndex(positionOfTarget,
                               indexOf(sortedNodesOfLayer, target) # -1, sortedNodesOfLayer)
        newLayerCons == getActualLayer(target, nodes, layerOfTarget)
        forbidden == isLayerForbidden(target, newLayerCons, nodes, edges)
    IN IF forbidden THEN RefreshDiagramAction
       ELSE IF target.properties.layerId # layerOfTarget
            THEN IF shouldOnlyLCBeSet(target, layers, direction)
                 THEN SetLayerConstraintAction(target.id, layerOfTarget, newLayerCons)
                 ELSE SetStaticConstraintAction(target.id, layerOfTarget, newLayerCons,
                                                positionOfTarget, newPositionCons)
            ELSE IF target.properties.positionId # positionOfTarget
                 THEN SetPositionConstraintAction(target.id, positionOfTarget, newPositionCons)
                 ELSE RefreshDiagramAction

----------------------------------------------------------------------------
(* Diagrams the resolver is run on: three sibling nodes of one hierarchy   *)
(* level, laid out by the layered algorithm.                               *)

NodeSize == [width |-> 20, height |-> 12]

\* coordinate of layer 0 along the layout axis
Bases == {-240, 40}

\* (layerId, positionId) of the nodes 1, 2, 3
Assignments ==
    { << <<0, 0>>, <<0, 1>>, <<0, 2>> >>,
      << <<0, 0>>, <<1, 0>>, <<2, 0>> >>,
      << <<0, 0>>, <<0, 1>>, <<1, 0>> >>,
      << <<0, 0>>, <<1, 0>>, <<1, 1>> >>,
      << <<1, 0>>, <<0, 0>>, <<0, 1>> >>,
      << <<0, 1>>, <<0, 0>>, <<1, 0>> >> }

None3 == <<"none", "none", "none">>

\* constraints of the nodes 1, 2, 3: layer constraint, position constraint,
\* group of relative constraints (0: none), and the edges <<source, target>>
Constraints ==
    { [lc |-> None3, pc |-> None3, rel |-> <<0, 0, 0>>, edges |-> {}],
      [lc |-> <<"none", "none", "exact">>, pc |-> None3, rel |-> <<0, 0, 0>>, edges |-> {<<1, 3>>, <<2, 3>>}],
      [lc |-> <<"none", "none", "boost">>, pc |-> None3, rel |-> <<0, 0, 0>>, edges |-> {<<1, 3>>, <<3, 2>>}],
      [lc |-> <<"none", "boost", "boost">>, pc |-> None3, rel |-> <<0, 0, 0>>, edges |-> {<<1, 3>>}],
      [lc |-> None3, pc |-> <<"none", "boost", "none">>, rel |-> <<0, 0, 0>>, edges |-> {}],
      [lc |-> <<"exact", "none", "none">>, pc |-> <<"exact", "exact", "none">>, rel |-> <<0, 0, 0>>, edges |-> {<<2, 1>>}],
      [lc |-> <<"none", "none", "exact">>, pc |-> None3, rel |-> <<1, 1, 0>>, edges |-> {<<2, 3>>}],
      [lc |-> <<"exact", "none", "none">>, pc |-> <<"boost", "boost", "none">>, rel |-> <<0, 0, 0>>, edges |-> {}],
      [lc |-> <<"exact", "none", "boost">>, pc |-> None3, rel |-> <<0, 0, 0>>, edges |-> {<<3, 1>>}] }

ConstraintValue(kind, id) ==
    CASE kind = "none" -> -1
      [] kind = "exact" -> id
      [] kind = "boost" -> id + 1

\* the layers follow each other along the layout direction
LayerCoordinate(base, layerId, direction) ==
    IF ascending(direction) THEN base + layerId * 100 ELSE base + (2 - layerId) * 100

PositionCoordinate(positionId) == 40 + positionId * 60

KNode(id, direction, base, a, k) ==
    [ id |-> id,
      position |-> IF alongX(direction)
                   THEN [x |-> LayerCoordinate(base, a[1], direction), y |-> PositionCoordinate(a[2])]
                   ELSE [x |-> PositionCoordinate(a[2]), y |-> LayerCoordinate(base, a[1], direction)],
      size |-> NodeSize,
      shadow |-> FALSE, shadowX |-> 0, shadowY |-> 0,
      selected |-> FALSE,
      direction |-> direction,
      properties |-> [ layerId |-> a[1], positionId |-> a[2],
                       layerConstraint |-> ConstraintValue(k.lc[id], a[1]),
                       positionConstraint |-> ConstraintValue(k.pc[id], a[2]) ],
      relGroup |-> k.rel[id] ]

Diagram(direction, base, a, k) ==
    [ nodes |-> [id \in 1..3 |-> KNode(id, direction, base, a[id], k)],
      edges |-> {e \in k.edges : a[e[1]][1] # a[e[2]][1]} ]

\* the constraints agree with the layering they produced
LayoutConsistent(nodes) ==
    \A i, j \in DOMAIN nodes :
        LET p == nodes[i].properties
            q == nodes[j].properties
        IN /\ (p.layerConstraint # -1 /\ q.layerConstraint # -1)
                => /\ (p.layerId < q.layerId => p.layerConstraint < q.layerConstraint)
                   /\ (p.layerId = q.layerId => p.layerConstraint = q.layerConstraint)
           /\ (p.layerId = q.layerId /\ p.positionConstraint # -1 /\ q.positionConstraint # -1)
                => (p.positionId < q.positionId => p.positionConstraint < q.positionConstraint)

Diagrams ==
    { d \in { Diagram(direction, base, a, k) :
                direction \in Directions, base \in Bases, a \in Assignments, k \in Constraints } :
        LayoutConsistent(d.nodes) }

nodeById(nodes, id) == nodes[CHOOSE i \in DOMAIN nodes : nodes[i].id = id]

mainCoordinate(position, direction) == IF alongX(direction) THEN position.x ELSE position.y
crossCoordinate(position, direction) == IF alongX(direction) THEN position.y ELSE position.x
mainSize(size, direction) == IF alongX(direction) THEN size.width ELSE size.height

\* centres along the layout axis a node is dropped at: on the borders and the
\* mids of the layers and beyond both outer borders
MainDrops(layers) ==
    LET marks == UNION {{layers[i].begin, layers[i].mid, layers[i].end} : i \in DOMAIN layers}
                     \ {MAX_VALUE, Half(MAX_VALUE)}
        lo == CHOOSE m \in marks : \A n \in marks : m <= n
        hi == CHOOSE m \in marks : \A n \in marks : m >= n
    IN IF layers = <<>> THEN {} ELSE marks \cup {lo - 40, hi + 40}

\* coordinates across the layout axis a node is dropped at
CrossDrops(layers, nodes, direction) ==
    LET crosses == {crossCoordinate(nodes[i].position, direction) : i \in DOMAIN nodes}
    IN IF layers = <<>> THEN {}
       ELSE crosses \cup {c + 4 : c \in crosses}
               \cup {PositionCoordinate(0) - 4, layers[1].topBorder - 4, layers[1].bottomBorder + 4}

----------------------------------------------------------------------------
(* The resolver as a state machine: the layers are computed for the        *)
(* rendering of the level, the user drags a node, and on release           *)
(* setProperty resolves the drop.                                          *)

RInit ==
    /\ DmInit /\ query = <<>> /\ answer = <<>>
    /\ \E d \in Diagrams : dragNodes = d.nodes /\ dragEdges = d.edges
    /\ dragTarget = 0
    /\ dragLayers = <<>>
    /\ dragAction = <<>>

GetLayers ==
    /\ dragNodes # <<>>
    /\ dragLayers = <<>>
    /\ dragLayers' = getLayers(dragNodes, dragNodes[1].direction)
    /\ dragNodes' = sortByLayerId(dragNodes)
    /\ UNCHANGED <<dragEdges, dragTarget, dragAction>>
    /\ UNCHANGED dmVars /\ UNCHANGED qVars

\* the user has selected the node and dragged its centre to (main, cross):
\* the shadow keeps the committed position
Drop(id, main, cross) ==
    /\ dragLayers # <<>>
    /\ dragTarget = 0
    /\ \E i \in DOMAIN dragNodes :
        /\ dragNodes[i].id = id
        /\ LET node == dragNodes[i]
               direction == node.direction
               m == main - Half(mainSize(node.size, direction))
           IN dragNodes' = [dragNodes EXCEPT ![i] =
                  [node EXCEPT !.shadow = TRUE,
                               !.shadowX = node.position.x,
                               !.shadowY = node.position.y,
                               !.selected = TRUE,
                               !.position = IF alongX(direction) THEN [x |-> m, y |-> cross]
                                                                 ELSE [x |-> cross, y |-> m]]]
    /\ dragTarget' = id
    /\ UNCHANGED <<dragEdges, dragLayers, dragAction>>
    /\ UNCHANGED dmVars /\ UNCHANGED qVars

SetProperty ==
    /\ dragTarget # 0
    /\ dragAction = <<>>
    /\ dragAction' = <<setProperty(dragNodes, dragLayers, nodeById(dragNodes, dragTarget), dragEdges)>>
    /\ UNCHANGED <<dragNodes, dragEdges, dragTarget, dragLayers>>
    /\ UNCHANGED dmVars /\ UNCHANGED qVars

RNext ==
    \/ GetLayers
    \/ \E id \in 1..3 :
         \E main \in MainDrops(dragLayers) :
           \E cross \in CrossDrops(dragLayers, dragNodes, dragNodes[1].direction) :
             Drop(id, main, cross)
    \/ SetProperty

RSpec == RInit /\ [][RNext]_vars

----------------------------------------------------------------------------
(* Claims about the expand / collapse engine                               *)

ExpandCollapseCalls == {"skip", "coldStart", "incremental"}

\* the region's absolute bounds are known and lie entirely outside the visible
\* rectangle of vp enlarged by the visibility buffer on all sides
EntirelyOutside(region, vp, root) ==
    /\ region.absoluteBounds # <<>>
    /\ LET b == region.absoluteBounds[1]
       IN \/ b.x + b.width < vp.scroll.x - absoluteVisibilityBuffer
          \/ (b.x - vp.scroll.x - absoluteVisibilityBuffer) * vp.zoom > root.canvasBounds.width * ZoomOne
          \/ b.y + b.height < vp.scroll.y - absoluteVisibilityBuffer
          \/ (b.y - vp.scroll.y - absoluteVisibilityBuffer) * vp.zoom > root.canvasBounds.height * ZoomOne

\* C1: after any sequence of expandCollapse calls, every Region that is EXPANDED
\* and has a parent has an EXPANDED parent (no orphaned expansion).
C1_NoOrphanedExpansion ==
    \A r \in DOMAIN regions :
        (regions[r].expansionState = EXPANDED /\ regions[r].parent # 0)
            => regions[regions[r].parent].expansionState = EXPANDED

\* C2: an expandCollapse call whose viewport has the scroll and the zoom of the
\* recorded viewport changes no Region's expansionState, no element's
\* expansionState, not criticalRegions and not the recorded viewport.
C2_IdenticalViewportNoOp ==
    [][ ( /\ lastCall'.op \in ExpandCollapseCalls
          /\ viewport # <<>>
          /\ lastCall'.viewport[1].scroll = viewport[1].scroll
          /\ lastCall'.viewport[1].zoom = viewport[1].zoom )
        => UNCHANGED <<regions, nodeStates, criticalRegions, viewport>> ]_vars

\* C2 witness: a call was skipped on a DepthMap that has a critical region and
\* absolute bounds recorded, so a second pass would have had work to do
C2_Witness ==
    /\ lastCall.op = "skip"
    /\ Len(criticalRegions) > 0
    /\ \E r \in DOMAIN regions : regions[r].absoluteBounds # <<>>

\* C3: after an expandCollapse call with viewport V that was not skipped, no
\* Region whose absoluteBounds lie entirely outside the buffered visible rectangle
\* of V is left EXPANDED.
C3_InvisibleIsCollapsed ==
    lastCall.op \in {"coldStart", "incremental"} =>
        \A r \in DOMAIN regions :
            EntirelyOutside(regions[r], lastCall.viewport[1], Models[rootElement])
                => regions[r].expansionState # EXPANDED

\* sizeInViewport of the queried region is below the queried threshold
QuerySizeBelowThreshold ==
    LET b == query.root.bounds[1]
        c == query.root.canvasBounds
    IN /\ b.width * query.viewport.zoom * ThresholdOne < query.threshold * c.width * ZoomOne
       /\ b.height * query.viewport.zoom * ThresholdOne < query.threshold * c.height * ZoomOne

\* C4: for a region that isVisible reports visible, getExpansionState with
\* zoom >= 1 returns EXPANDED, for every threshold and every region size.
C4_NativeResolutionExpands ==
    (answer # <<>> /\ answer[1].isVisible /\ query.viewport.zoom >= ZoomOne)
        => answer[1].getExpansionState = EXPANDED

\* C4 witness: a visible region with a bounding rectangle smaller than the
\* threshold was evaluated at zoom exactly 1
C4_Witness ==
    /\ answer # <<>>
    /\ answer[1].isVisible
    /\ query.viewport.zoom = ZoomOne
    /\ query.region.boundingRectangle # 0
    /\ query.region.absoluteBounds # <<>>
    /\ QuerySizeBelowThreshold

\* C5 as claimed: a region without boundingRectangle evaluates to EXPANDED for
\* every viewport, threshold and absoluteBounds.
C5_RootAlwaysExpanded ==
    (answer # <<>> /\ query.region.boundingRectangle = 0)
        => answer[1].getExpansionState = EXPANDED

\* C5 amended: a region without boundingRectangle evaluates to EXPANDED for every
\* threshold and zoom when its absoluteBounds are unknown or intersect the
\* buffered visible rectangle, and to COLLAPSED when they lie entirely outside it.
C5_RootExpandedIffVisible ==
    (answer # <<>> /\ query.region.boundingRectangle = 0)
        => (answer[1].getExpansionState =
               IF EntirelyOutside(query.region, query.viewport, query.root) THEN COLLAPSED ELSE EXPANDED)

\* C5 witness: a region without boundingRectangle and with known, intersecting
\* absoluteBounds was evaluated below native zoom with a positive threshold
C5_Witness ==
    /\ answer # <<>>
    /\ query.region.boundingRectangle = 0
    /\ query.region.absoluteBounds # <<>>
    /\ ~EntirelyOutside(query.region, query.viewport, query.root)
    /\ query.viewport.zoom < ZoomOne
    /\ query.threshold > 0

----------------------------------------------------------------------------
(* Claims about the layered constraint resolver                            *)

DragDirection == dragNodes[1].direction
DragTargetNode == nodeById(dragNodes, dragTarget)
Dropped == dragAction # <<>>
ActionKind == dragAction[1].kind

ResolvedLayer == getLayerOfNode(DragTargetNode, dragNodes, dragLayers, DragDirection)
ResolvedPosition ==
    getPositionInLayer(getNodesOfLayer(ResolvedLayer, dragNodes), DragTargetNode, DragDirection)
ResolvedLayerCons == getActualLayer(DragTargetNode, dragNodes, ResolvedLayer)

LayerChanged == DragTargetNode.properties.layerId # ResolvedLayer
PositionChanged == DragTargetNode.properties.positionId # ResolvedPosition
OutsideSpan == shouldOnlyLCBeSet(DragTargetNode, dragLayers, DragDirection)
Forbidden == isLayerForbidden(DragTargetNode, ResolvedLayerCons, dragNodes, dragEdges)

\* C6: a node dropped at its committed layer and in-layer position (the
\* resolved layer equals properties.layerId and the resolved position equals
\* properties.positionId) makes setProperty return RefreshDiagramAction and
\* no Set*ConstraintAction.
C6_RoundTripRefreshes ==
    (Dropped /\ ~LayerChanged /\ ~PositionChanged) => dragAction[1] = RefreshDiagramAction

C6_Witness ==
    /\ Dropped /\ ~LayerChanged /\ ~PositionChanged /\ ~Forbidden
    /\ DragTargetNode.properties.positionId > 0
    /\ dragAction[1] = RefreshDiagramAction

\* the nodes connected by an edge to the target or to a node of its chain
ConnectedToChain ==
    LET chain == getChain(DragTargetNode, getNodesOfLayer(DragTargetNode.properties.layerId, dragNodes))
        chainIds == {chain[i].id : i \in DOMAIN chain}
    IN {i \in DOMAIN dragNodes :
          \E e \in dragEdges : \/ (e[1] \in chainIds /\ e[2] = dragNodes[i].id)
                               \/ (e[2] \in chainIds /\ e[1] = dragNodes[i].id)}

\* C7: when a node B connected to the target A (or to a node of A's chain)
\* has a pinned layer constraint and A is dragged into B's layer, setProperty
\* returns RefreshDiagramAction, never a SetLayerConstraintAction or
\* SetStaticConstraintAction placing A there, also in the presence of
\* boosted layer constraints (layerConstraint > layerId).
C7_ForbiddenLayerRejected ==
    Dropped =>
        \A i \in ConnectedToChain :
            (dragNodes[i].properties.layerConstraint # -1
                /\ ResolvedLayer = dragNodes[i].properties.layerId)
            => dragAction[1] = RefreshDiagramAction

\* C8: the kind of setProperty's result is a total function of (forbidden,
\* layerChanged, outsideSpan, positionChanged): forbidden gives Refresh; else
\* layerChanged and outsideSpan give SetLayerConstraint; else layerChanged
\* gives SetStaticConstraint; else positionChanged gives
\* SetPositionConstraint; else Refresh. A SetPositionConstraintAction is
\* emitted only when the resolved layer is the target's layerId, a
\* layer-carrying action only when it differs.
C8_ResultKindTable ==
    Dropped =>
        /\ ActionKind =
             IF Forbidden THEN "RefreshDiagramAction"
             ELSE IF LayerChanged /\ OutsideSpan THEN "SetLayerConstraintAction"
             ELSE IF LayerChanged THEN "SetStaticConstraintAction"
             ELSE IF PositionChanged THEN "SetPositionConstraintAction"
             ELSE "RefreshDiagramAction"
        /\ (ActionKind = "SetPositionConstraintAction" => ~LayerChanged)
        /\ (ActionKind \in {"SetLayerConstraintAction", "SetStaticConstraintAction"} => LayerChanged)

C8_Witness ==
    /\ Dropped /\ ~Forbidden /\ LayerChanged /\ OutsideSpan /\ PositionChanged
    /\ ActionKind = "SetLayerConstraintAction"
    /\ dragAction[1].layer = ResolvedLayer

\* twice the centre of the dragged node along the layout axis
DragCentre2 ==
    2 * mainCoordinate(DragTargetNode.position, DragDirection)
        + mainSize(DragTargetNode.size, DragDirection)

\* the half-open interval of the layer: [begin, end), and (end, begin] for LEFT and UP
LayerContains(layer, c2) ==
    IF ascending(DragDirection)
    THEN 2 * layer.begin <= c2 /\ c2 < 2 * layer.end
    ELSE 2 * layer.end < c2 /\ c2 <= 2 * layer.begin

\* C9: getLayerOfNode returns the id of the layer whose half-open interval
\* [begin, end) contains the centre of the node along the layout axis
\* (reversed for LEFT and UP); a centre on a boundary belongs to the layer
\* whose end it is strictly less than; a centre in no layer's interval is
\* not assigned to an interior layer.
C9_HalfOpenLayerIntervals ==
    Dropped =>
        /\ \A i \in DOMAIN dragLayers :
              LayerContains(dragLayers[i], DragCentre2) => ResolvedLayer = dragLayers[i].id
        /\ (\A i \in DOMAIN dragLayers : ~LayerContains(dragLayers[i], DragCentre2))
              => \A i \in 2..(Len(dragLayers) - 1) : ResolvedLayer # dragLayers[i].id

C9_Witness ==
    /\ Dropped
    /\ DragDirection = Direction_RIGHT
    /\ Len(dragLayers) = 3
    /\ DragCentre2 = 2 * dragLayers[2].begin
    /\ dragLayers[1].end = dragLayers[2].begin
    /\ dragLayers[2].begin < dragLayers[2].end
    /\ ResolvedLayer = dragLayers[2].id

\* the committed coordinate of a node (its shadow while it is dragged)
CommittedMain(node) ==
    IF alongX(DragDirection)
    THEN (IF node.shadow THEN node.shadowX ELSE node.position.x)
    ELSE (IF node.shadow THEN node.shadowY ELSE node.position.y)

LowExtent == CHOOSE v \in {CommittedMain(dragNodes[i]) : i \in DOMAIN dragNodes} :
                 \A i \in DOMAIN dragNodes : v <= CommittedMain(dragNodes[i])
HighExtent == CHOOSE v \in {CommittedMain(dragNodes[i]) + mainSize(dragNodes[i].size, DragDirection) : i \in DOMAIN dragNodes} :
                  \A i \in DOMAIN dragNodes : v >= CommittedMain(dragNodes[i]) + mainSize(dragNodes[i].size, DragDirection)

SingleLayerDiagram ==
    /\ dragLayers # <<>>
    /\ \A i, j \in DOMAIN dragNodes : dragNodes[i].properties.layerId = dragNodes[j].properties.layerId

\* C10: for a non-empty node list whose nodes share one layerId, getLayers
\* returns exactly one Layer whose begin and end are the extreme node extents
\* along the layout axis moved outward by ONE_LAYER_PADDING (begin - 10 and
\* end + 10 for RIGHT, DOWN, UNDEFINED; begin + 10 and end - 10 for LEFT, UP).
C10_SingleLayerPadding ==
    SingleLayerDiagram =>
        /\ Len(dragLayers) = 1
        /\ IF ascending(DragDirection)
           THEN /\ dragLayers[1].begin = LowExtent - ONE_LAYER_PADDING
                /\ dragLayers[1].end = HighExtent + ONE_LAYER_PADDING
           ELSE /\ dragLayers[1].begin = HighExtent + ONE_LAYER_PADDING
                /\ dragLayers[1].end = LowExtent - ONE_LAYER_PADDING

----------------------------------------------------------------------------
(* Claims about the DepthMap life cycle and the region lookup              *)

\* a DepthMap as the constructor and init leave it
FreshInstance(root) == init(NewDepthMap(root), root)

\* C11: over any sequence of getInstance(root) calls the one instance has the
\* root of the latest call as rootElement; a call with the root of the
\* instance returns it with viewport, criticalRegions and expansion states
\* preserved; a call with another root replaces it by a freshly built
\* instance (no recorded viewport, empty criticalRegions), also when that
\* root had an instance earlier.
C11_SingletonPerRoot ==
    [][ lastCall'.op = "getInstance" =>
          /\ rootElement' = lastCall'.root
          /\ IF rootElement = lastCall'.root
             THEN UNCHANGED <<rootRegions, regionMap, regions, criticalRegions, viewport, nodeStates>>
             ELSE /\ viewport' = <<>>
                  /\ criticalRegions' = <<>>
                  /\ regions' = FreshInstance(lastCall'.root).regions
                  /\ rootRegions' = FreshInstance(lastCall'.root).rootRegions
                  /\ regionMap' = FreshInstance(lastCall'.root).regionMap ]_vars

\* C11 witness: getInstance returned the existing instance, which has a
\* recorded viewport, a critical region and known absolute bounds
C11_Witness ==
    /\ lastCall.op = "getInstance"
    /\ viewport # <<>>
    /\ Len(criticalRegions) > 0
    /\ \E r \in DOMAIN regions : regions[r].absoluteBounds # <<>>

\* init throws on the model of this root
InitFails(root) == FreshInstance(root).thrown

\* C12: when init fails part-way on a malformed model, getInstance returns
\* normally with a DepthMap whose region set is empty (rootRegions and
\* regionMap empty), so that later expandCollapse calls change nothing.
C12_FailedInitLeavesEmpty ==
    (rootElement # 0 /\ InitFails(rootElement)) =>
        /\ rootRegions = <<>>
        /\ regionMap = <<>>
        /\ \A r \in DOMAIN regions : regions[r].expansionState = UNDEFINED

\* a node of the ancestor chain of node (node included) is registered in regionMap
RECURSIVE ChainRegistered(_, _)

ChainRegistered(root, node) ==
    node # 0 /\ (node \in DOMAIN regionMap \/ ChainRegistered(root, parentOf(root, node)))

\* C13: findRegionWithElement(n) returns, for a node that is not a region
\* boundary, the Region whose elements contain n; for a node that is a region
\* boundary, the nearest enclosing region (the region it frames); and
\* not-found when no node of n's ancestor chain is registered in regionMap.
C13_LookupFindsRegion ==
    rootElement # 0 =>
        \A n \in NodesOf(rootElement) :
            LET r == findRegionWithElement(Heap, rootElement, n)
            IN IF n \in DOMAIN regionMap
               THEN r # 0 /\ regions[r].boundingRectangle = n
               ELSE IF ChainRegistered(rootElement, n)
               THEN r # 0 /\ n \in Range(regions[r].elements)
               ELSE r = 0

----------------------------------------------------------------------------
(* Claims about the expand / collapse passes                               *)

\* the fields of a Region that describe the region tree
Structure(region) ==
    [ boundingRectangle |-> region.boundingRectangle, parent |-> region.parent,
      children |-> region.children, elements |-> region.elements ]

\* C14: expandCollapse only toggles expansion state: every call leaves
\* rootRegions, regionMap and every Region's boundingRectangle, parent,
\* children and elements unchanged (no Region is created, removed or
\* re-parented).
C14_ExpandCollapseKeepsTree ==
    [][ lastCall'.op \in ExpandCollapseCalls =>
          /\ rootRegions' = rootRegions
          /\ regionMap' = regionMap
          /\ DOMAIN regions' = DOMAIN regions
          /\ \A r \in DOMAIN regions : Structure(regions'[r]) = Structure(regions[r]) ]_vars

\* C14 witness: an incremental call has left expanded and collapsed regions
C14_Witness ==
    /\ lastCall.op = "incremental"
    /\ \E r \in DOMAIN regions : regions[r].expansionState = COLLAPSED
    /\ \E r \in DOMAIN regions : regions[r].expansionState = EXPANDED /\ regions[r].children # <<>>

\* the result of the expansion test of region r under the viewport and the
\* threshold of the last expandCollapse pass
Tests(r) == getExpansionState(regions[r], lastCall.viewport[1], lastCall.threshold, Models[rootElement])

\* r is reached by descending from a root region through regions that test EXPANDED
RECURSIVE ReachedExpanded(_)

ReachedExpanded(r) ==
    /\ Tests(r) = EXPANDED
    /\ (regions[r].parent = 0 \/ ReachedExpanded(regions[r].parent))

\* the regions of the subtree of r, r included
RECURSIVE Subtree(_)

Subtree(r) == {r} \cup UNION {Subtree(c) : c \in Range(regions[r].children)}

\* the children on the descent that test COLLAPSED
CollapsedOnDescent ==
    {c \in DOMAIN regions :
        /\ regions[c].parent # 0
        /\ ReachedExpanded(regions[c].parent)
        /\ Tests(c) = COLLAPSED}

\* C15: after a cold-start expandCollapse, for every root region that tests
\* EXPANDED: every region reached by descending through children that test
\* EXPANDED is EXPANDED; every child on the descent that tests COLLAPSED is
\* COLLAPSED and so is every region of its subtree; and the parent of each
\* such child is in criticalRegions.
C15_ColdStartDescent ==
    lastCall.op = "coldStart" =>
        /\ \A r \in DOMAIN regions : ReachedExpanded(r) => regions[r].expansionState = EXPANDED
        /\ \A c \in CollapsedOnDescent :
              /\ \A d \in Subtree(c) : regions[d].expansionState = COLLAPSED
              /\ regions[c].parent \in Range(criticalRegions)

\* the regions that are critical before a call and that the call has to
\* collapse: the parent is collapsed, or the region tests COLLAPSED under the
\* viewport and threshold of the call
MustCollapse ==
    {r \in Range(criticalRegions) :
        \/ (regions[r].parent # 0 /\ regions[regions[r].parent].expansionState = COLLAPSED)
        \/ Tests(r)' = COLLAPSED}

\* C16: after an incremental expandCollapse, every region that was in
\* criticalRegions at the start of the call and whose parent is collapsed or
\* whose own test returns COLLAPSED under the new viewport is COLLAPSED, is
\* no longer in criticalRegions, and every region of its subtree is COLLAPSED.
C16_CriticalRegionCollapses ==
    [][ lastCall'.op = "incremental" =>
          \A r \in MustCollapse :
              /\ regions'[r].expansionState = COLLAPSED
              /\ r \notin Range(criticalRegions')
              /\ \A d \in Subtree(r) : regions'[d].expansionState = COLLAPSED ]_vars

\* C17: after any sequence of expandCollapse calls every region in
\* criticalRegions is EXPANDED: no collapsed region is left in, or added to,
\* the critical set at the end of a call.
C17_CriticalRegionsExpanded ==
    \A r \in Range(criticalRegions) : regions[r].expansionState = EXPANDED

\* C18: after any sequence of expandCollapse calls every EXPANDED region that
\* has at least one COLLAPSED child is in criticalRegions.
C18_FrontierIsCritical ==
    \A r \in DOMAIN regions :
        ( /\ regions[r].expansionState = EXPANDED
          /\ \E c \in Range(regions[r].children) : regions[c].expansionState = COLLAPSED )
        => r \in Range(criticalRegions)

\* C18 witness: an incremental call has left an expanded region with a
\* collapsed child, and the region is critical
C18_Witness ==
    /\ lastCall.op = "incremental"
    /\ \E r \in Range(criticalRegions) :
          /\ regions[r].expansionState = EXPANDED
          /\ regions[r].parent # 0
          /\ \E c \in Range(regions[r].children) : regions[c].expansionState = COLLAPSED

\* the DepthMap of the model as freshly built: no expansion state assigned,
\* no critical region; the absolute bounds are those the renderer recorded
FreshHeap ==
    [ Heap EXCEPT !.criticalRegions = <<>>,
                  !.nodes = [n \in NodesOf(rootElement) |-> UNDEFINED],
                  !.regions = [r \in DOMAIN regions |-> [regions[r] EXCEPT !.expansionState = UNDEFINED]] ]

\* the regions after one cold-start pass on the fresh DepthMap with the
\* viewport and the threshold of the last pass
Recomputed ==
    coldStartLoop(FreshHeap, lastCall.viewport[1], lastCall.threshold, Models[rootElement], 1).regions

\* an expansion state with unset counted as collapsed
Effective(state) == IF state = EXPANDED THEN EXPANDED ELSE COLLAPSED

\* C19: the incremental path is equivalent to a full recomputation: after an
\* expandCollapse pass with viewport V and threshold t every region's
\* expansion state (unset counted as collapsed) equals the state a single
\* cold-start expandCollapse(V, t) produces on a freshly built DepthMap of
\* the same model.
C19_IncrementalEqualsRecomputation ==
    lastCall.op \in {"coldStart", "incremental"} =>
        \A r \in DOMAIN regions :
            Effective(regions[r].expansionState) = Effective(Recomputed[r].expansionState)

----------------------------------------------------------------------------
(* Claims about the expansion test                                         *)

\* max(width * zoom / canvasWidth, height * zoom / canvasHeight) >= threshold
\* for the queried region, cross-multiplied
QuerySizeReachesThreshold ==
    LET b == query.root.bounds[1]
        c == query.root.canvasBounds
    IN \/ b.width * query.viewport.zoom * ThresholdOne >= query.threshold * c.width * ZoomOne
       \/ b.height * query.viewport.zoom * ThresholdOne >= query.threshold * c.height * ZoomOne

\* C20: for a visible region with a boundingRectangle and zoom < 1,
\* getExpansionState returns EXPANDED iff sizeInViewport = max(width * zoom /
\* canvasWidth, height * zoom / canvasHeight) >= threshold and COLLAPSED
\* otherwise; a region that is not visible is COLLAPSED regardless of size,
\* zoom and threshold; the threshold is 0.2 when the option is absent.
C20_SizeThresholdTest ==
    /\ expandCollapseThreshold(<<>>) * 10 = 2 * ThresholdOne
    /\ answer # <<>> =>
          IF EntirelyOutside(query.region, query.viewport, query.root)
          THEN answer[1].getExpansionState = COLLAPSED
          ELSE (query.region.boundingRectangle # 0 /\ query.viewport.zoom < ZoomOne)
                  => (answer[1].getExpansionState =
                         IF QuerySizeReachesThreshold THEN EXPANDED ELSE COLLAPSED)

\* C20 witness: a visible region with known absolute bounds whose size in the
\* viewport equals the threshold was evaluated below native zoom
C20_Witness ==
    /\ answer # <<>>
    /\ query.region.absoluteBounds # <<>>
    /\ ~EntirelyOutside(query.region, query.viewport, query.root)
    /\ query.region.boundingRectangle # 0
    /\ query.viewport.zoom < ZoomOne
    /\ query.threshold > 0
    /\ query.root.bounds[1].width * query.viewport.zoom * ThresholdOne
           = query.threshold * query.root.canvasBounds.width * ZoomOne
    /\ answer[1].getExpansionState = EXPANDED

----------------------------------------------------------------------------
(* Claims about the visibility test                                        *)

\* the queried box has an edge on an edge of the buffered rectangle
QueryTouches ==
    LET b == query.region.absoluteBounds[1]
        vp == query.viewport
        c == query.root.canvasBounds
    IN \/ b.x + b.width = vp.scroll.x - absoluteVisibilityBuffer
       \/ (b.x - vp.scroll.x - absoluteVisibilityBuffer) * vp.zoom = c.width * ZoomOne
       \/ b.y + b.height = vp.scroll.y - absoluteVisibilityBuffer
       \/ (b.y - vp.scroll.y - absoluteVisibilityBuffer) * vp.zoom = c.height * ZoomOne

\* C21: isVisible fails open: for a region without absoluteBounds it returns
\* true for every viewport; for a region with absoluteBounds it returns true
\* iff the region's box intersects the rectangle [scroll, scroll +
\* canvasSize / zoom] enlarged by absoluteVisibilityBuffer on all four sides,
\* touching edges counting as intersecting.
C21_VisibleIffIntersects ==
    answer # <<>> =>
        /\ query.region.absoluteBounds = <<>> => answer[1].isVisible
        /\ query.region.absoluteBounds # <<>> =>
              (answer[1].isVisible <=> ~EntirelyOutside(query.region, query.viewport, query.root))

\* C21 witness: a box that touches the buffered rectangle without overlapping
\* it was tested and found visible
C21_Witness ==
    /\ answer # <<>>
    /\ query.region.absoluteBounds # <<>>
    /\ QueryTouches
    /\ answer[1].isVisible

----------------------------------------------------------------------------
(* Claims about the construction of the region tree                        *)

\* the top-level children of the model root
TopLevel(root) == Range(Models[root].rootChildren)

\* the nodes below node in depth-first order, as initHelper walks them
RECURSIVE Below(_, _), BelowFrom(_, _, _)

Below(root, node) == BelowFrom(root, node, 1)

BelowFrom(root, node, i) ==
    IF i > Len(Models[root].children[node]) THEN <<>>
    ELSE LET child == Models[root].children[node][i]
         IN <<child>> \o Below(root, child) \o BelowFrom(root, node, i + 1)

\* the walk of init: every top-level child followed by the nodes below it
RECURSIVE Walk(_, _)

Walk(root, i) ==
    IF i > Len(Models[root].rootChildren) THEN <<>>
    ELSE <<Models[root].rootChildren[i]>> \o Below(root, Models[root].rootChildren[i]) \o Walk(root, i + 1)

\* the nodes init visits: the walk up to the node whose data cannot be read
Visited(root) ==
    LET walk == Walk(root, 1)
        fails(k) == walk[k] \notin TopLevel(root) /\ Models[root].data[walk[k]] = Missing
    IN {walk[k] : k \in {j \in DOMAIN walk : \A l \in 1..(j - 1) : ~fails(l)}}

\* the node that frames the nearest region strictly enclosing node (0: none)
RECURSIVE EnclosingFrame(_, _)

EnclosingFrame(root, node) ==
    LET p == parentOf(root, node)
    IN IF p = 0 THEN 0
       ELSE IF p \in TopLevel(root) \/ isRegionBoundary(root, p) THEN p
       ELSE EnclosingFrame(root, p)

\* the regions whose elements hold node, and how often a list holds it
Holders(node) == {r \in DOMAIN regions : node \in Range(regions[r].elements)}
Occurrences(node, elements) == Cardinality({k \in DOMAIN elements : elements[k] = node})

\* node is in exactly one elements list, once, and the list is that of the
\* nearest strictly enclosing region
InEnclosingRegionOnly(node) ==
    /\ Cardinality(Holders(node)) = 1
    /\ \A r \in Holders(node) :
          /\ Occurrences(node, regions[r].elements) = 1
          /\ regions[r].boundingRectangle = EnclosingFrame(rootElement, node)

\* C22 as claimed: after construction on a tree-shaped model every visited
\* node is in exactly one region's elements list, that of its nearest
\* strictly enclosing region, and in it once.
C22_EveryVisitedNodeAssigned ==
    rootElement # 0 => \A n \in Visited(rootElement) : InEnclosingRegionOnly(n)

\* C22 amended: every visited node below a top-level child is in exactly one
\* region's elements list, that of its nearest strictly enclosing region, and
\* in it once (a region boundary in the parent region's list, never in the
\* list of the region it bounds); a top-level child, which frames a root
\* region, and a node that was not visited are in no elements list.
C22_VisitedBelowTopLevelAssigned ==
    rootElement # 0 =>
        \A n \in NodesOf(rootElement) :
            IF n \in Visited(rootElement) \ TopLevel(rootElement)
            THEN InEnclosingRegionOnly(n)
            ELSE Holders(n) = {}

\* C22 witness: the DepthMap was built for a model with a nested region
\* boundary that has elements of its own, and with a plain node
C22_Witness ==
    /\ lastCall.op = "getInstance"
    /\ \E n \in DOMAIN regionMap :
          /\ regions[regionMap[n]].parent # 0
          /\ regions[regionMap[n]].elements # <<>>
          /\ n \in Range(regions[regions[regionMap[n]].parent].elements)
    /\ \E n \in NodesOf(rootElement) : n \notin DOMAIN regionMap /\ Holders(n) # {}

\* following the parent links from r ends at a root region and meets no
\* region of seen, nor a region twice
RECURSIVE ReachesRoot(_, _)

ReachesRoot(r, seen) ==
    /\ r \notin seen
    /\ IF regions[r].parent = 0
       THEN r \in Range(rootRegions)
       ELSE ReachesRoot(regions[r].parent, seen \cup {r})

\* the Regions whose boundingRectangle is node
FramedBy(node) == {r \in DOMAIN regions : regions[r].boundingRectangle = node}

----------------------------------------------------------------------------
(* Claims about Region.setExpansionState                                   *)

\* C24: after any sequence of expandCollapse calls, for every Region whose
\* expansionState has been set, every node directly in its elements list
\* carries the expansionState of the region; and setExpansionState on a
\* region changes neither another Region (nested child regions included)
\* nor a node outside the region's own elements list.
C24_ElementsFollowRegion ==
    rootElement # 0 =>
        /\ \A r \in DOMAIN regions :
              regions[r].expansionState # UNDEFINED =>
                  \A n \in Range(regions[r].elements) :
                      nodeStates[rootElement][n] = regions[r].expansionState
        /\ \A r \in DOMAIN regions, state \in {EXPANDED, COLLAPSED} :
              LET h == setExpansionState(Heap, r, state)
              IN /\ \A c \in DOMAIN regions \ {r} : h.regions[c] = regions[c]
                 /\ \A n \in NodesOf(rootElement) \ Range(regions[r].elements) :
                       h.nodes[n] = nodeStates[rootElement][n]

\* C24 witness: an incremental call has left an expanded region and a
\* collapsed child region of it, both with elements
C24_Witness ==
    /\ lastCall.op = "incremental"
    /\ \E r, c \in DOMAIN regions :
          /\ regions[c].parent = r
          /\ regions[r].expansionState = EXPANDED /\ regions[r].elements # <<>>
          /\ regions[c].expansionState = COLLAPSED /\ regions[c].elements # <<>>

----------------------------------------------------------------------------
(* Claims about the correction of the layer and of the position            *)

\* the nodes other than the target at or left of the candidate layer whose
\* layer constraint is greater than their layer id
OtherBoosted(candidate) ==
    {i \in DOMAIN dragNodes :
        /\ dragNodes[i].id # dragTarget
        /\ dragNodes[i].properties.layerId <= candidate
        /\ dragNodes[i].properties.layerConstraint > dragNodes[i].properties.layerId}

\* C25: getActualLayer(target, nodes, c) returns c when no node other than
\* the target with layerId <= c has layerConstraint > layerId; otherwise it
\* returns maxCons + (c - m.layerId), m being a node with the maximum layer
\* constraint maxCons among those other nodes; the target's own layerId and
\* layerConstraint do not influence the result.
C25_ActualLayerIgnoresTarget ==
    Dropped =>
        LET c == ResolvedLayer
            others == OtherBoosted(c)
        IN IF others = {}
           THEN ResolvedLayerCons = c
           ELSE \E m \in others :
                   /\ \A j \in others : dragNodes[j].properties.layerConstraint
                                            <= dragNodes[m].properties.layerConstraint
                   /\ ResolvedLayerCons = dragNodes[m].properties.layerConstraint
                                              + (c - dragNodes[m].properties.layerId)

\* the nodes of the resolved layer as getPositionInLayer leaves them
ResolvedLayerNodes == sortByPosition(getNodesOfLayer(ResolvedLayer, dragNodes), DragDirection)
AlreadyInLayer == indexOf(ResolvedLayerNodes, DragTargetNode) # -1
ResolvedPosCons == getActualTargetIndex(ResolvedPosition, AlreadyInLayer, ResolvedLayerNodes)

\* the upper neighbour of the candidate index (layerNodes[i - 1] of the source)
UpperNeighbor == ResolvedLayerNodes[ResolvedPosition]

\* the candidate index is positive and the upper neighbour has a position
\* constraint greater than its own index
UpperPinned ==
    /\ ResolvedPosition > 0
    /\ UpperNeighbor.properties.positionConstraint > ResolvedPosition - 1

\* the target was in the layer above the upper neighbour and is dropped below it
MovedDownPastUpper ==
    AlreadyInLayer /\ UpperNeighbor.properties.positionId = ResolvedPosition

\* C26 as claimed: when the candidate index i > 0 and the upper neighbour has a
\* position constraint p greater than its own index i - 1, getActualTargetIndex
\* returns an index strictly greater than p, for both values of
\* alreadyInLayer; in every other case it returns the candidate index.
C26_IndexPastUpperConstraint ==
    Dropped =>
        IF UpperPinned
        THEN ResolvedPosCons > UpperNeighbor.properties.positionConstraint
        ELSE ResolvedPosCons = ResolvedPosition

\* C26 amended: when the candidate index i > 0 and the upper neighbour has a
\* position constraint p greater than its own index i - 1, getActualTargetIndex
\* returns p + 1, except that it returns p itself when the target was already
\* in the layer and the positionId of the upper neighbour equals i (the target
\* is moved down past that neighbour); in every other case it returns the
\* candidate index. The position constraint of an emitted action is this value.
C26_IndexAtOrPastUpperConstraint ==
    Dropped =>
        /\ ResolvedPosCons =
              IF UpperPinned
              THEN IF MovedDownPastUpper
                   THEN UpperNeighbor.properties.positionConstraint
                   ELSE UpperNeighbor.properties.positionConstraint + 1
              ELSE ResolvedPosition
        /\ ActionKind \in {"SetPositionConstraintAction", "SetStaticConstraintAction"}
              => dragAction[1].posCons = ResolvedPosCons

\* C26 witness: a node was dropped below its lower neighbour in its own layer,
\* that neighbour has a boosted position constraint, and the action carries
\* the constraint value of the neighbour
C26_Witness ==
    /\ Dropped /\ UpperPinned /\ MovedDownPastUpper
    /\ ActionKind = "SetPositionConstraintAction"
    /\ dragAction[1].posCons = UpperNeighbor.properties.positionConstraint

----------------------------------------------------------------------------
(* Claims about the layer of a node dropped beyond the layers              *)

LastLayerId == dragLayers[Len(dragLayers)].id

\* the centre of the dragged node passes the test of no layer
NoLayerMatches ==
    \A i \in DOMAIN dragLayers :
        IF ascending(DragDirection)
        THEN DragCentre2 >= 2 * dragLayers[i].end
        ELSE DragCentre2 <= 2 * dragLayers[i].end

\* the target is the one node of the last layer
TargetAloneInLastLayer ==
    {dragNodes[i].id : i \in {j \in DOMAIN dragNodes : dragNodes[j].properties.layerId = LastLayerId}}
        = {dragTarget}

\* C27: when the coordinate of the target matches no layer, getLayerOfNode
\* returns the id of the last layer if the target itself is the sole occupant
\* of the last layer and lastLayerId + 1 otherwise; in all cases the result is
\* the id of an existing layer or lastLayerId + 1.
C27_BeyondLastLayer ==
    Dropped =>
        /\ NoLayerMatches =>
              ResolvedLayer = IF TargetAloneInLastLayer THEN LastLayerId ELSE LastLayerId + 1
        /\ ResolvedLayer \in {dragLayers[i].id : i \in DOMAIN dragLayers} \cup {LastLayerId + 1}
        /\ ActionKind \in {"SetLayerConstraintAction", "SetStaticConstraintAction"}
              => dragAction[1].layer = ResolvedLayer

\* C27 witness: the one node of the last of several layers was dropped beyond
\* the end of that layer and stays in it
C27_Witness ==
    /\ Dropped /\ NoLayerMatches /\ TargetAloneInLastLayer
    /\ Len(dragLayers) > 1
    /\ ResolvedLayer = LastLayerId

----------------------------------------------------------------------------
(* Claims about the coordinates setProperty reads                          *)

\* the nodes with the position of the target replaced
WithTargetPosition(pos) ==
    [i \in DOMAIN dragNodes |->
        IF dragNodes[i].id = dragTarget THEN [dragNodes[i] EXCEPT !.position = pos] ELSE dragNodes[i]]

\* the nodes with the shadow coordinates of the target replaced
WithTargetShadow(pos) ==
    [i \in DOMAIN dragNodes |->
        IF dragNodes[i].id = dragTarget
        THEN [dragNodes[i] EXCEPT !.shadowX = pos.x, !.shadowY = pos.y]
        ELSE dragNodes[i]]

\* setProperty on the given nodes, with the layers, the target and the edges of the drag
SetPropertyOn(nodes) == setProperty(nodes, dragLayers, nodeById(nodes, dragTarget), dragEdges)

TargetShadowPosition == [x |-> DragTargetNode.shadowX, y |-> DragTargetNode.shadowY]

\* C28 as claimed: for a dragged target (shadow flag set) the result of
\* setProperty depends only on shadowX / shadowY and not on position: a run
\* that differs only in position.x / position.y of the target (here: the
\* target at the place its shadow marks) returns the same action.
C28_ActionIgnoresPosition ==
    (Dropped /\ DragTargetNode.shadow) =>
        SetPropertyOn(WithTargetPosition(TargetShadowPosition)) = dragAction[1]

\* C28 amended: for a dragged target (shadow flag set) the result of
\* setProperty depends on position.x / position.y of the target, which hold
\* the place it was dragged to, and not on shadowX / shadowY, which hold the
\* place it was dragged from: runs that differ only in shadowX / shadowY of
\* the target return the same action.
C28_ActionIgnoresShadow ==
    (Dropped /\ DragTargetNode.shadow) =>
        \A pos \in {DragTargetNode.position, [x |-> 0, y |-> 0]} :
            SetPropertyOn(WithTargetShadow(pos)) = dragAction[1]

\* C28 witness: a node was dragged into another layer, away from the place of
\* its shadow, and the action places it in the layer it was dropped in
C28_Witness ==
    /\ Dropped /\ DragTargetNode.shadow
    /\ TargetShadowPosition # DragTargetNode.position
    /\ ActionKind = "SetStaticConstraintAction"
    /\ dragAction[1].layer # DragTargetNode.properties.layerId
    /\ SetPropertyOn(WithTargetPosition(TargetShadowPosition)) = RefreshDiagramAction

----------------------------------------------------------------------------
(* Claims about the termination of expandCollapse                          *)

\* the nesting depth of a region (a root region has depth 1) and of the forest
RECURSIVE RegionDepth(_)

RegionDepth(r) == IF regions[r].parent = 0 THEN 1 ELSE 1 + RegionDepth(regions[r].parent)

ForestDepth ==
    IF regions = <<>> THEN 0
    ELSE CHOOSE d \in {RegionDepth(r) : r \in DOMAIN regions} :
             \A r \in DOMAIN regions : RegionDepth(r) <= d

\* the frontiers of the while loop of a call that starts in this state
FrontiersOf(vp, threshold) == criticalRegionsLoop(Heap, vp, threshold, Models[rootElement]).frontiers

\* the number of calls of searchUntilCollapse and recursiveCollapseRegion per
\* region in a call that starts in this state
VisitsOf(vp, threshold) ==
    IF Len(criticalRegions) = 0
    THEN coldStartLoop(Heap, vp, threshold, Models[rootElement], 1).visits
    ELSE checkCriticalRegions(Heap, vp, threshold, Models[rootElement]).visits

\* the DepthMap engine on the model with the deepest nesting of regions
TRoots == {1}

TNext ==
    \/ \E root \in TRoots : GetInstance(root)
    \/ \E vp \in Viewports, t \in ThresholdOptions : ExpandCollapse(vp, t)
    \/ \E region \in DOMAIN regions, b \in AbsoluteBounds : SetAbsoluteBounds(region, b)

TSpec == Init /\ [][TNext]_vars

\* every region of a frontier after the first is the parent of a region of
\* the frontier before it
OnlyParentsQueued(frontiers) ==
    \A k \in 2..Len(frontiers) : \A r \in Range(frontiers[k]) :
        \E q \in Range(frontiers[k - 1]) : regions[q].parent = r

\* C29: every expandCollapse call runs to completion: the while loop of
\* checkCriticalRegions only queues parents of the regions it processed, it
\* runs at most as many rounds as the region forest is deep, and
\* searchUntilCollapse and recursiveCollapseRegion together visit a region at
\* most as many times as the region is deep in the forest.
C29_ExpandCollapseTerminates ==
    [][ lastCall'.op \in {"coldStart", "incremental"} =>
          LET frontiers == FrontiersOf(lastCall'.viewport[1], lastCall'.threshold)
              visits == VisitsOf(lastCall'.viewport[1], lastCall'.threshold)
          IN /\ Len(frontiers) <= ForestDepth
             /\ OnlyParentsQueued(frontiers)
             /\ \A r \in DOMAIN regions : visits[r] <= RegionDepth(r) ]_vars

\* a state with critical regions from which a call for a changed viewport runs
\* two rounds of the while loop, the second on the parent of a region of the
\* first, and visits a region twice
C29_Witness ==
    /\ rootElement # 0 /\ Len(criticalRegions) > 0
    /\ \E vp \in Viewports, t \in ThresholdOptions :
          /\ ~viewportUnchanged(viewport, vp)
          /\ LET frontiers == FrontiersOf(vp, expandCollapseThreshold(t))
                 visits == VisitsOf(vp, expandCollapseThreshold(t))
             IN /\ Len(frontiers) = 2
                /\ \E r \in DOMAIN regions : visits[r] = 2

----------------------------------------------------------------------------
(* Claims about the values of the emitted constraint actions               *)

CarriesLayer == ActionKind \in {"SetLayerConstraintAction", "SetStaticConstraintAction"}
CarriesPosition == ActionKind \in {"SetPositionConstraintAction", "SetStaticConstraintAction"}

\* C30: in every constraint action emitted by setProperty the corrected value
\* is not below the raw one: layerCons >= layer in SetLayerConstraintAction
\* and SetStaticConstraintAction, posCons >= position in
\* SetPositionConstraintAction and SetStaticConstraintAction; the position is
\* the one getPositionInLayer resolved and lies within 0..(number of nodes of
\* the destination layer), so the upper neighbour getActualTargetIndex reads
\* at position - 1 is a node of layerNodes.
C30_CorrectedNotBelowRaw ==
    Dropped =>
        /\ CarriesLayer =>
              /\ dragAction[1].layer = ResolvedLayer
              /\ dragAction[1].layerCons >= dragAction[1].layer
        /\ CarriesPosition =>
              /\ dragAction[1].position = ResolvedPosition
              /\ dragAction[1].posCons >= dragAction[1].position
        /\ ResolvedPosition \in 0..Len(ResolvedLayerNodes)
        /\ ResolvedPosition > 0 => ResolvedPosition \in DOMAIN ResolvedLayerNodes

\* C30 witness: a static constraint, which carries both pairs of values, for
\* a node dropped behind the last node of its destination layer, with the
\* position constraint corrected above the position
C30_Witness ==
    /\ Dropped /\ ActionKind = "SetStaticConstraintAction"
    /\ dragAction[1].posCons > dragAction[1].position
    /\ dragAction[1].position = Len(ResolvedLayerNodes)

====
